---------------------------- MODULE Spec2Model ----------------------------
(***************************************************************************)
(* Model of the kubeagent cluster simulator and of the App component that  *)
(* drives it.                                                              *)
(*                                                                         *)
(*   src/services/kubernetesSimulator.ts  KubernetesSimulator (the store,  *)
(*                                        getState, executeCommand)        *)
(*   src/App.tsx                          the interval callback with the   *)
(*                                        alert diff, the alert feed, the  *)
(*                                        command handlers, the renders    *)
(*                                                                         *)
(* Strings are sequences of one-character strings, so that trimming,       *)
(* substring search and message templates are computed and not assumed.    *)
(* Usage values are real numbers in the source; here they are fixed-point  *)
(* numbers counted in 1/Scale of a percent, so that Math.round is a real   *)
(* conversion.  Every Math.random() draw is a nondeterministic choice from *)
(* a small set of representative outcomes.  Pod ids are taken to be        *)
(* pairwise different (the random 9-character suffixes do not collide).    *)
(*                                                                         *)
(* Specifications:                                                         *)
(*   Spec      the store, the renders, the interval callback with its diff *)
(*             and feed, and the store effects of the command handlers, on *)
(*             one application pod and one system pod; it leaves the       *)
(*             message list aside                                          *)
(*   FeedSpec  the feed update applied to batches of one or two alerts     *)
(*   CmdSpec   getState and executeCommand on the whole seed roster        *)
(*   ChatSpec  the terminal input, the chat request and its step loop,     *)
(*             with the message list, interleaved with the interval        *)
(*             callback                                                    *)
(*   ChatLiveSpec  ChatSpec with the fairness of the renders, of the       *)
(*             translation promise and of the handler's continuation       *)
(*   ShutdownSpec  ChatSpec with the unmounting of the component           *)
(*   ToastSpec the toast, its timeouts and the interval on a clock counted *)
(*             in seconds                                                  *)
(*   DiffSpec  the alert diff applied to the pods before and after a tick  *)
(***************************************************************************)
EXTENDS Integers, Sequences, FiniteSets, TLC

VARIABLES
  state,          \* KubernetesSimulator.state: [pods, namespaces]
  clusterState,   \* App: useState<ClusterState>, a reference
  lastStateRef,   \* App: lastStateRef.current, a reference
  alerts,         \* App: useState<Alert[]>, the alert feed
  activeToast,    \* App: useState<Alert | null>
  mounted,        \* the first render has run and the interval is installed
  renderPending,  \* a state update is waiting for App to be rendered again
  pc,             \* position inside handleTerminalCommand, "idle" outside it
  calls,          \* number of getState() invocations so far
  emitted,        \* number of alerts created so far (stands for Alert.id)
  focus,          \* index of the pod whose random draws are explored in full
  lastOp,         \* history: the step that ran last, [op, branch]
  prevPods,       \* history: store pods immediately before the interval
                  \*          callback that ran last (<<>> after other steps)
  diffPrev,       \* history: the pods that callback's diff read as "previous"
  newAlerts,      \* history: the newAlerts array of that callback
  run,            \* history: per pod, the current above-threshold CPU run
  feedHistory,    \* history: every alert ever pushed, most recent first
  pairs,          \* history: number of two-alert batches pushed
  messages,       \* App: useState<Message[]>, each message [role, content]
  isProcessing,   \* App: useState(false)
  inflight,       \* handleUserInput is awaiting gemini.processRequest
  steps,          \* handleUserInput: the steps its loop has yet to run
  lastCommand,    \* history: argument of the executeCommand call made last
  lastOutput,     \* history: what that call returned
  unmounted,      \* App has been unmounted: the effect's cleanup has run
  now,            \* the clock, in seconds since the interval was installed
  intervalDue,    \* the time at which the interval fires next
  timeouts,       \* the pending setTimeout callbacks, each [due, alert]
  toastAt,        \* history: the time at which activeToast was set last
  firedFor        \* history: id of the alert whose timeout fired last

vars == <<state, clusterState, lastStateRef, alerts, activeToast, mounted,
          renderPending, pc, calls, emitted, focus, lastOp, prevPods, diffPrev,
          newAlerts, run, feedHistory, pairs, messages, isProcessing,
          inflight, steps, lastCommand, lastOutput, unmounted, now,
          intervalDue, timeouts, toastAt, firedFor>>

\* the message list, the chat request and the record of the last command
chatVars == <<messages, isProcessing, inflight, steps, lastCommand, lastOutput>>

\* the clock, the timers and the unmounting
timerVars == <<unmounted, now, intervalDue, timeouts, toastAt, firedFor>>

----------------------------------------------------------------------------
(* Bounds of the model *)

\* resolution of usage values: 1/Scale percent
Scale == 2
\* getState() invocations explored
MaxCalls == 3
\* alerts pushed in the feed specification
MaxEmitted == 53
\* batches of two alerts in the feed specification
MaxPairs == 1
\* length of the message list in the chat specification
MaxMessages == 6
\* seconds of the clock explored in the toast specification
MaxTime == 9

(* Program constants *)

THRESHOLD == 90
CriticalCpu == 95
FeedCap == 50
UsageMax == 100
SpikeDelta == 50
CpuSpread == 5
MemSpread == 2
\* the period of the interval and the delay of the toast timeout, in seconds
IntervalSeconds == 3
ToastSeconds == 5

----------------------------------------------------------------------------
(* Strings.  A string held in the state is a TLA+ string; Chars gives its  *)
(* characters wherever the program looks inside it or builds a text.       *)

Chars(s) ==
  CASE s = "api-gateway-0.a1b" -> <<"a","p","i","-","g","a","t","e","w","a","y","-","0",".","a","1","b">>
    [] s = "auth-service-0.c2d" -> <<"a","u","t","h","-","s","e","r","v","i","c","e","-","0",".","c","2","d">>
    [] s = "user-db-0.e3f" -> <<"u","s","e","r","-","d","b","-","0",".","e","3","f">>
    [] s = "redis-cache-0.g4h" -> <<"r","e","d","i","s","-","c","a","c","h","e","-","0",".","g","4","h">>
    [] s = "worker-node-a-0.i5j" -> <<"w","o","r","k","e","r","-","n","o","d","e","-","a","-","0",".","i","5","j">>
    [] s = "coredns-0.a1b" -> <<"c","o","r","e","d","n","s","-","0",".","a","1","b">>
    [] s = "kube-proxy-0.k6l" -> <<"k","u","b","e","-","p","r","o","x","y","-","0",".","k","6","l">>
    [] s = "calico-node-0.m7n" -> <<"c","a","l","i","c","o","-","n","o","d","e","-","0",".","m","7","n">>
    [] s = "metrics-server-0.o8p" -> <<"m","e","t","r","i","c","s","-","s","e","r","v","e","r","-","0",".","o","8","p">>
    [] s = "default" -> <<"d","e","f","a","u","l","t">>
    [] s = "kube-system" -> <<"k","u","b","e","-","s","y","s","t","e","m">>
    [] s = "production" -> <<"p","r","o","d","u","c","t","i","o","n">>
    [] s = "monitoring" -> <<"m","o","n","i","t","o","r","i","n","g">>
    [] s = "10.244.0.10" -> <<"1","0",".","2","4","4",".","0",".","1","0">>
    [] s = "10.244.0.11" -> <<"1","0",".","2","4","4",".","0",".","1","1">>
    [] s = "10.244.0.12" -> <<"1","0",".","2","4","4",".","0",".","1","2">>
    [] s = "10.244.0.13" -> <<"1","0",".","2","4","4",".","0",".","1","3">>
    [] s = "10.244.0.14" -> <<"1","0",".","2","4","4",".","0",".","1","4">>
    [] s = "10.96.0.1" -> <<"1","0",".","9","6",".","0",".","1">>
    [] s = "10.96.0.2" -> <<"1","0",".","9","6",".","0",".","2">>
    [] s = "10.96.0.3" -> <<"1","0",".","9","6",".","0",".","3">>
    [] s = "10.96.0.4" -> <<"1","0",".","9","6",".","0",".","4">>
    [] s = "Running" -> <<"R","u","n","n","i","n","g">>
    [] s = "Pending" -> <<"P","e","n","d","i","n","g">>
    [] s = "Error" -> <<"E","r","r","o","r">>
    [] s = "Terminating" -> <<"T","e","r","m","i","n","a","t","i","n","g">>

str_Pod ==
  <<"P","o","d"," ">>
str_entered ==
  <<" ","h","a","s"," ","e","n","t","e","r","e","d"," ","E","r","r","o","r"," ","s","t","a","t","e","!">>
str_High ==
  <<"H","i","g","h"," ">>
str_CPU ==
  <<"C","P","U">>
str_Memory ==
  <<"M","e","m","o","r","y">>
str_usage_on ==
  <<" ","u","s","a","g","e"," ","o","n"," ">>
str_lparen ==
  <<" ","(">>
str_pct ==
  <<"%",")">>

Max(a, b) == IF a >= b THEN a ELSE b
Min(a, b) == IF a <= b THEN a ELSE b

DigitChars == <<"0","1","2","3","4","5","6","7","8","9">>

\* String(n) for a natural number n, as a template literal formats it
RECURSIVE Digits(_)
Digits(n) ==
  IF n < 10 THEN <<DigitChars[n + 1]>>
  ELSE Digits(n \div 10) \o <<DigitChars[(n % 10) + 1]>>

\* Math.round on a fixed-point value: nearest integer, halves upwards
Round(x) == (2 * x + Scale) \div (2 * Scale)

----------------------------------------------------------------------------
(* The store: seed pods and getState *)

INITIAL_NAMESPACES == <<"default", "kube-system", "production", "monitoring">>

\* generateMockEvents: the reasons of the five seed events
generateMockEvents == <<"Scheduled", "Pulling", "Pulled", "Created", "Started">>

\* Math.floor(Math.random() * 60) + 5: a low and the highest outcome
DefaultCpuSeeds == {5 * Scale, 64 * Scale}
\* Math.floor(Math.random() * 70) + 10: the highest outcome
DefaultMemSeeds == {79 * Scale}
\* Math.floor(Math.random() * 15) + 2: the lowest outcome
SystemCpuSeeds == {2 * Scale}
\* Math.floor(Math.random() * 20) + 5: the lowest outcome
SystemMemSeeds == {5 * Scale}

\* the first application pod of the roster (names[0], i = 0), its random
\* name suffix being "0.a1b"
DefaultPod(cpu, mem) ==
  [id |-> "pod-r0",
   name |-> "api-gateway-0.a1b",
   namespace |-> "default",
   status |-> "Running",
   ip |-> "10.244.0.10",
   node |-> "node-1",
   labels |-> [app |-> "api-gateway", tier |-> "frontend"],
   usage |-> [cpu |-> cpu, memory |-> mem],
   events |-> generateMockEvents,
   connections |-> <<>>,
   schedulingConstraints |->
     <<[type |-> "NodeAffinity", rule |-> "Required", labelSelector |-> "disk=ssd"]>>]

\* the first system pod of the roster (systemNames[0], i = 0)
SystemPod(cpu, mem) ==
  [id |-> "sys-0",
   name |-> "coredns-0.a1b",
   namespace |-> "kube-system",
   status |-> "Running",
   ip |-> "10.96.0.1",
   node |-> "node-1",
   labels |-> [k8s_app |-> "coredns"],
   usage |-> [cpu |-> cpu, memory |-> mem],
   events |-> generateMockEvents,
   connections |-> <<>>]

\* generateMockPods, restricted to one application pod and one system pod
generateMockPods ==
  { <<DefaultPod(c1, m1), SystemPod(c2, m2)>> :
      c1 \in DefaultCpuSeeds, m1 \in DefaultMemSeeds,
      c2 \in SystemCpuSeeds, m2 \in SystemMemSeeds }

(* The whole seed roster: five application pods and four system pods.  Each *)
(* pod gets one usage seed, its own random name suffix, and no connection   *)
(* (the outcome of "Setup random connections" in which no pod draws one).   *)

names == <<"api-gateway", "auth-service", "user-db", "redis-cache", "worker-node-a">>
systemNames == <<"coredns", "kube-proxy", "calico-node", "metrics-server">>
nodes == <<"node-1", "node-2", "node-3">>

\* `${name}-${Math.random().toString(36).substr(0, 5)}` for names[i]
DefaultFullPodName ==
  <<"api-gateway-0.a1b", "auth-service-0.c2d", "user-db-0.e3f",
    "redis-cache-0.g4h", "worker-node-a-0.i5j">>
\* the same for systemNames[i]
SystemFullPodName ==
  <<"coredns-0.a1b", "kube-proxy-0.k6l", "calico-node-0.m7n",
    "metrics-server-0.o8p">>
\* `pod-${Math.random().toString(36).substr(2, 9)}`
DefaultPodId == <<"pod-r0", "pod-r1", "pod-r2", "pod-r3", "pod-r4">>
SystemPodId == <<"sys-0", "sys-1", "sys-2", "sys-3">>
\* `10.244.0.${i + 10}` and `10.96.0.${i + 1}`
DefaultPodIp ==
  <<"10.244.0.10", "10.244.0.11", "10.244.0.12", "10.244.0.13", "10.244.0.14">>
SystemPodIp == <<"10.96.0.1", "10.96.0.2", "10.96.0.3", "10.96.0.4">>

\* the constraints pushed for names[i]
constraints(i) ==
  IF names[i] = "api-gateway"
    THEN <<[type |-> "NodeAffinity", rule |-> "Required", labelSelector |-> "disk=ssd"]>>
  ELSE IF names[i] = "user-db"
    THEN <<[type |-> "PodAntiAffinity", rule |-> "Required", labelSelector |-> "app=user-db"]>>
  ELSE IF names[i] = "redis-cache"
    THEN <<[type |-> "PodAffinity", rule |-> "Preferred", labelSelector |-> "app=user-db"]>>
  ELSE <<>>

\* the pod pushed for names[i], i counted from 1 here and from 0 in the source
RosterDefaultPod(i, cpu, mem) ==
  [id |-> DefaultPodId[i],
   name |-> DefaultFullPodName[i],
   namespace |-> "default",
   status |-> "Running",
   ip |-> DefaultPodIp[i],
   node |-> nodes[((i - 1) % Len(nodes)) + 1],
   labels |-> [app |-> names[i], tier |-> IF i - 1 < 2 THEN "frontend" ELSE "backend"],
   usage |-> [cpu |-> cpu, memory |-> mem],
   events |-> generateMockEvents,
   connections |-> <<>>,
   schedulingConstraints |-> constraints(i)]

\* the pod pushed for systemNames[i]
RosterSystemPod(i, cpu, mem) ==
  [id |-> SystemPodId[i],
   name |-> SystemFullPodName[i],
   namespace |-> "kube-system",
   status |-> "Running",
   ip |-> SystemPodIp[i],
   node |-> nodes[1],
   labels |-> [k8s_app |-> systemNames[i]],
   usage |-> [cpu |-> cpu, memory |-> mem],
   events |-> generateMockEvents,
   connections |-> <<>>]

\* generateMockPods with the whole roster, every pod on its lowest usage seed
SeedRoster ==
  [i \in 1..Len(names) |->
     RosterDefaultPod(i, CHOOSE c \in DefaultCpuSeeds : \A d \in DefaultCpuSeeds : c <= d,
                      CHOOSE m \in DefaultMemSeeds : \A d \in DefaultMemSeeds : m <= d)]
  \o [i \in 1..Len(systemNames) |->
        RosterSystemPod(i, CHOOSE c \in SystemCpuSeeds : \A d \in SystemCpuSeeds : c <= d,
                        CHOOSE m \in SystemMemSeeds : \A d \in SystemMemSeeds : m <= d)]

\* Math.random() * 10 - 5 lies in [-5, 5): its least and greatest outcome
CpuDeltas == {-(CpuSpread * Scale), CpuSpread * Scale - 1}
\* Math.random() * 4 - 2 lies in [-2, 2)
MemDeltas == {-(MemSpread * Scale), MemSpread * Scale - 1}

\* the four Math.random() draws getState makes for one pod; a spike overrides
\* the normal CPU delta, whose value is then irrelevant
Draws ==
  { d \in [flip : BOOLEAN, cpu : CpuDeltas, spike : BOOLEAN, mem : MemDeltas] :
      d.spike => d.cpu = -(CpuSpread * Scale) }

\* the likeliest kind of draw: no flip, no spike
QuietDraw ==
  [flip |-> FALSE, cpu |-> -(CpuSpread * Scale), spike |-> FALSE,
   mem |-> -(MemSpread * Scale)]

\* the draws of one getState call: every outcome for the pod in focus, the
\* quiet draw for the others
DrawsFor(pods) ==
  { f \in [1..Len(pods) -> Draws] :
      \A i \in 1..Len(pods) : i # focus => f[i] = QuietDraw }

\* a clamp that forgets the upper limit
Clamp_NoUpper(x) == Max(0, x)

\* Math.max(0, Math.min(100, x))
Clamp(x) == Max(0, Min(UsageMax * Scale, x))

\* a flip that sends a Running pod to Terminating
FlipStatus_ToTerminating(status) ==
  IF status = "Running" THEN "Terminating" ELSE "Running"

\* a flip that sends a pod in Error to Pending
FlipStatus_ToPending(status) == IF status = "Running" THEN "Error" ELSE "Pending"

\* status === RUNNING ? ERROR : RUNNING
FlipStatus(status) == IF status = "Running" THEN "Error" ELSE "Running"

\* a tick that rebuilds the pod without its events
TickPod_NoEvents(pod, d) ==
  LET status == IF d.flip THEN FlipStatus(pod.status) ELSE pod.status
      cpuDelta == IF d.spike THEN SpikeDelta * Scale ELSE d.cpu
  IN [pod EXCEPT !.status = status,
                 !.events = <<>>,
                 !.usage = [cpu |-> Clamp(pod.usage.cpu + cpuDelta),
                            memory |-> Clamp(pod.usage.memory + d.mem)]]

\* a tick that adds the spike to the normal delta
TickPod_SpikeAdded(pod, d) ==
  LET status == IF d.flip THEN FlipStatus(pod.status) ELSE pod.status
      cpuDelta == IF d.spike THEN d.cpu + SpikeDelta * Scale ELSE d.cpu
  IN [pod EXCEPT !.status = status,
                 !.usage = [cpu |-> Clamp(pod.usage.cpu + cpuDelta),
                            memory |-> Clamp(pod.usage.memory + d.mem)]]

\* the body of the map callback in getState
TickPod(pod, d) ==
  LET status == IF d.flip THEN FlipStatus(pod.status) ELSE pod.status
      cpuDelta == IF d.spike THEN SpikeDelta * Scale ELSE d.cpu
  IN [pod EXCEPT !.status = status,
                 !.usage = [cpu |-> Clamp(pod.usage.cpu + cpuDelta),
                            memory |-> Clamp(pod.usage.memory + d.mem)]]

\* this.state.pods = this.state.pods.map(...)
TickPods(pods, draws) == [i \in 1..Len(pods) |-> TickPod(pods[i], draws[i])]

(* References to ClusterState objects.  this.state is one object for the   *)
(* life of the simulator; spreading it ({...x}) makes a new object that    *)
(* holds the pod array the store had at that moment.                       *)
NoRef == [kind |-> "none"]
StoreRef == [kind |-> "store"]

\* getState: `return this.state`
GetStateResult(st) == StoreRef

\* { ...ref }
ShallowCopy(st, ref) ==
  IF ref.kind = "store"
    THEN [kind |-> "copy", pods |-> st.pods, namespaces |-> st.namespaces]
    ELSE ref

\* ref.pods, read while the store is st
PodsOf(st, ref) ==
  IF ref.kind = "store" THEN st.pods
  ELSE IF ref.kind = "copy" THEN ref.pods
  ELSE <<>>

----------------------------------------------------------------------------
(* The alert diff of the interval callback *)

NoAlert == [id |-> 0]

\* lastStateRef.current.pods.find(p => p.id === pod.id): index, 0 if none
RECURSIVE FindFrom(_, _, _)
FindFrom(pods, id, i) ==
  IF i > Len(pods) THEN 0
  ELSE IF pods[i].id = id THEN i
  ELSE FindFrom(pods, id, i + 1)

FindById(pods, id) == FindFrom(pods, id, 1)

\* a level-triggered status rule
StatusEdge_Level(pod, lastPod) == pod.status = "Error"

\* pod.status === ERROR && lastPod.status !== ERROR
StatusEdge(pod, lastPod) ==
  pod.status = "Error" /\ lastPod.status # "Error"

\* a utilization condition that counts a value of exactly 90 as above
UtilizationEdge_AtThreshold(pod, lastPod) ==
  \/ pod.usage.cpu >= THRESHOLD * Scale /\ lastPod.usage.cpu < THRESHOLD * Scale
  \/ pod.usage.memory >= THRESHOLD * Scale /\ lastPod.usage.memory < THRESHOLD * Scale

\* the utilization condition of the diff
UtilizationEdge(pod, lastPod) ==
  \/ pod.usage.cpu > THRESHOLD * Scale /\ lastPod.usage.cpu <= THRESHOLD * Scale
  \/ pod.usage.memory > THRESHOLD * Scale /\ lastPod.usage.memory <= THRESHOLD * Scale

\* `Pod ${pod.name} has entered Error state!`
StatusMessage(pod) == str_Pod \o Chars(pod.name) \o str_entered

\* a message that names the metric by the memory first
UtilizationMessage_MemoryFirst(pod) ==
  LET metric == IF pod.usage.memory > THRESHOLD * Scale THEN str_Memory ELSE str_CPU
  IN str_High \o metric \o str_usage_on \o Chars(pod.name) \o str_lparen
     \o Digits(Round(Max(pod.usage.cpu, pod.usage.memory))) \o str_pct

\* `High ${metric} usage on ${pod.name} (${Math.round(Math.max(cpu, memory))}%)`
UtilizationMessage(pod) ==
  LET metric == IF pod.usage.cpu > THRESHOLD * Scale THEN str_CPU ELSE str_Memory
  IN str_High \o metric \o str_usage_on \o Chars(pod.name) \o str_lparen
     \o Digits(Round(Max(pod.usage.cpu, pod.usage.memory))) \o str_pct

StatusAlert(pod) ==
  [id |-> 0, podId |-> pod.id, podName |-> pod.name, type |-> "Status",
   severity |-> "Critical", message |-> StatusMessage(pod)]

UtilizationAlert(pod) ==
  [id |-> 0, podId |-> pod.id, podName |-> pod.name, type |-> "Utilization",
   severity |-> IF pod.usage.cpu > CriticalCpu * Scale THEN "Critical" ELSE "Warning",
   message |-> UtilizationMessage(pod)]

\* the alerts one pod contributes, in push order
PodAlerts(pod, lastPod) ==
  (IF StatusEdge(pod, lastPod) THEN <<StatusAlert(pod)>> ELSE <<>>)
  \o (IF UtilizationEdge(pod, lastPod) THEN <<UtilizationAlert(pod)>> ELSE <<>>)

\* newState.pods.forEach(...)
RECURSIVE DiffFrom(_, _, _)
DiffFrom(pods, lastPods, i) ==
  IF i > Len(pods) THEN <<>>
  ELSE LET k == FindById(lastPods, pods[i].id)
       IN (IF k = 0 THEN <<>> ELSE PodAlerts(pods[i], lastPods[k]))
          \o DiffFrom(pods, lastPods, i + 1)

\* Alert.id is a fresh random string: the n-th alert created gets id n
WithIds(batch, n) == [k \in 1..Len(batch) |-> [batch[k] EXCEPT !.id = n + k]]

Take(s, n) == SubSeq(s, 1, Min(Len(s), n))

\* a feed that appends the new alerts after the old ones
PushAlerts_Append(batch, prev) == Take(prev \o batch, FeedCap)

\* setAlerts(prev => [...newAlerts, ...prev].slice(0, 50))
PushAlerts(batch, prev) == Take(batch \o prev, FeedCap)

----------------------------------------------------------------------------
(* executeCommand *)

pat_exec ==
  <<"e","x","e","c"," ","-","i","t">>
pat_get_pods ==
  <<"g","e","t"," ","p","o","d","s">>
pat_describe ==
  <<"d","e","s","c","r","i","b","e"," ","p","o","d">>
pat_logs ==
  <<"l","o","g","s">>
pat_tcpdump ==
  <<"t","c","p","d","u","m","p">>
cmd_get ==
  <<"k","u","b","e","c","t","l"," ","g","e","t"," ","p","o","d","s"," ","-","n"," ","k","u","b","e","-","s","y","s","t","e","m">>
cmd_describe ==
  <<"k","u","b","e","c","t","l"," ","d","e","s","c","r","i","b","e"," ","p","o","d"," ","d","o","e","s","-","n","o","t","-","e","x","i","s","t">>
cmd_exec ==
  <<" ","k","u","b","e","c","t","l"," ","e","x","e","c"," ","-","i","t"," ","w","e","b"," ","-","-"," ","s","h">>
cmd_logs ==
  <<"k","u","b","e","c","t","l"," ","l","o","g","s"," ","w","e","b">>
cmd_tcpdump ==
  <<"t","c","p","d","u","m","p"," ","-","i"," ","e","t","h","0">>
cmd_other ==
  <<"k","u","b","e","c","t","l"," ","d","e","l","e","t","e"," ","p","o","d"," ","w","e","b"," ">>
cmd_blank ==
  <<" "," ">>
str_kubectl_logs ==
  <<"k","u","b","e","c","t","l"," ","l","o","g","s"," ">>
str_kubectl_exec ==
  <<"k","u","b","e","c","t","l"," ","e","x","e","c"," ","-","i","t"," ">>
str_dash_n ==
  <<" ","-","n"," ">>
str_bin_sh ==
  <<" ","-","-"," ","/","b","i","n","/","s","h">>

\* the command strings typed in the terminal
Commands ==
  {cmd_get, cmd_describe, cmd_exec, cmd_logs, cmd_tcpdump, cmd_other, cmd_blank}

Whitespace == {" ", "\t", "\n", "\r"}

RECURSIVE TrimStart(_)
TrimStart(s) ==
  IF s # <<>> /\ Head(s) \in Whitespace THEN TrimStart(Tail(s)) ELSE s

RECURSIVE TrimEnd(_)
TrimEnd(s) ==
  IF s # <<>> /\ s[Len(s)] \in Whitespace
    THEN TrimEnd(SubSeq(s, 1, Len(s) - 1)) ELSE s

\* String.prototype.trim
Trim(s) == TrimEnd(TrimStart(s))

\* String.prototype.includes
Includes(s, pat) ==
  \E i \in 1..(Len(s) - Len(pat) + 1) : SubSeq(s, i, i + Len(pat) - 1) = pat

\* a dispatch that tests for logs before it tests for describe pod
Dispatch_LogsFirst(command) ==
  LET cmd == Trim(command)
  IN IF Includes(cmd, pat_exec) THEN "exec"
     ELSE IF Includes(cmd, pat_get_pods) THEN "get pods"
     ELSE IF Includes(cmd, pat_logs) THEN "logs"
     ELSE IF Includes(cmd, pat_describe) THEN "describe pod"
     ELSE IF Includes(cmd, pat_tcpdump) THEN "tcpdump"
     ELSE "fallback"

\* the branch of executeCommand that answers the command: first match wins
Dispatch(command) ==
  LET cmd == Trim(command)
  IN IF Includes(cmd, pat_exec) THEN "exec"
     ELSE IF Includes(cmd, pat_get_pods) THEN "get pods"
     ELSE IF Includes(cmd, pat_describe) THEN "describe pod"
     ELSE IF Includes(cmd, pat_logs) THEN "logs"
     ELSE IF Includes(cmd, pat_tcpdump) THEN "tcpdump"
     ELSE "fallback"

(* The text executeCommand returns *)

str_newline == <<"\n">>
str_space == <<" ">>
str_undefined == <<"u","n","d","e","f","i","n","e","d">>
str_pod == <<"p","o","d">>
str_default == <<"d","e","f","a","u","l","t">>
pat_n == <<"-","n">>
pat_namespace == <<"-","-","n","a","m","e","s","p","a","c","e","=">>
pat_A == <<"-","A">>
pat_all_namespaces == <<"-","-","a","l","l","-","n","a","m","e","s","p","a","c","e","s">>
sep_describe == <<"d","e","s","c","r","i","b","e"," ","p","o","d"," ">>

\* Array.prototype.join
RECURSIVE Join(_, _)
Join(lines, sep) ==
  IF lines = <<>> THEN <<>>
  ELSE IF Len(lines) = 1 THEN lines[1]
  ELSE lines[1] \o sep \o Join(Tail(lines), sep)

\* String.prototype.padEnd
RECURSIVE PadEnd(_, _)
PadEnd(s, n) == IF Len(s) >= n THEN s ELSE PadEnd(s \o str_space, n)

\* String.prototype.indexOf, counted from 1; 0 if pat does not occur
IndexOf(s, pat) ==
  LET hits == {i \in 1..(Len(s) - Len(pat) + 1) : SubSeq(s, i, i + Len(pat) - 1) = pat}
  IN IF hits = {} THEN 0 ELSE CHOOSE i \in hits : \A j \in hits : i <= j

\* the number of characters matched by a greedy \s* from index i
RECURSIVE SpanSpace(_, _)
SpanSpace(s, i) ==
  IF i <= Len(s) /\ s[i] \in Whitespace THEN 1 + SpanSpace(s, i + 1) ELSE 0

\* the number of characters matched by a greedy \S* from index i
RECURSIVE SpanWord(_, _)
SpanWord(s, i) ==
  IF i <= Len(s) /\ s[i] \notin Whitespace THEN 1 + SpanWord(s, i + 1) ELSE 0

\* the group captured by /lit\s+(\S+)/ tried at index i; <<>> if it fails there
CaptureSpaced(s, lit, i) ==
  IF i + Len(lit) - 1 <= Len(s) /\ SubSeq(s, i, i + Len(lit) - 1) = lit
    THEN LET w == SpanSpace(s, i + Len(lit))
             k == SpanWord(s, i + Len(lit) + w)
         IN IF w >= 1 /\ k >= 1
              THEN SubSeq(s, i + Len(lit) + w, i + Len(lit) + w + k - 1)
              ELSE <<>>
    ELSE <<>>

\* the group captured by /lit(\S+)/ tried at index i; <<>> if it fails there
CaptureJoined(s, lit, i) ==
  IF i + Len(lit) - 1 <= Len(s) /\ SubSeq(s, i, i + Len(lit) - 1) = lit
    THEN SubSeq(s, i + Len(lit), i + Len(lit) + SpanWord(s, i + Len(lit)) - 1)
    ELSE <<>>

\* cmd.match(/exec -it\s+([^\s]+)/)?.[1] || 'pod'
RECURSIVE ExecTargetFrom(_, _)
ExecTargetFrom(cmd, i) ==
  IF i > Len(cmd) THEN str_pod
  ELSE IF CaptureSpaced(cmd, pat_exec, i) # <<>> THEN CaptureSpaced(cmd, pat_exec, i)
  ELSE ExecTargetFrom(cmd, i + 1)

ExecTarget(cmd) == ExecTargetFrom(cmd, 1)

\* the canned shell transcript
ExecResponse(cmd) ==
  Join(<< <<"D","e","f","a","u","l","t","i","n","g"," ","c","o","n","t","a","i","n","e","r"," ","n","a","m","e"," ","t","o"," ","m","a","i","n",".">>,
          <<"S","u","c","c","e","s","s","f","u","l","l","y"," ","c","o","n","n","e","c","t","e","d"," ","t","o"," ","p","o","d","/">> \o ExecTarget(cmd),
          <<"/"," ","#"," ","w","h","o","a","m","i">>,
          <<"r","o","o","t">>,
          <<"/"," ","#"," ","l","s"," ","-","F"," ","/","a","p","p">>,
          <<"b","i","n","/"," "," ","c","o","n","f","i","g",".","j","s","o","n"," "," ","m","a","i","n",".","j","s"," "," ","n","o","d","e","_","m","o","d","u","l","e","s","/"," "," ","p","a","c","k","a","g","e",".","j","s","o","n"," "," ","p","u","b","l","i","c","/">>,
          <<"/"," ","#"," ","n","e","t","s","t","a","t"," ","-","t","u","l","n">>,
          <<"A","c","t","i","v","e"," ","I","n","t","e","r","n","e","t"," ","c","o","n","n","e","c","t","i","o","n","s"," ","(","o","n","l","y"," ","s","e","r","v","e","r","s",")">>,
          <<"P","r","o","t","o"," ","R","e","c","v","-","Q"," ","S","e","n","d","-","Q"," ","L","o","c","a","l"," ","A","d","d","r","e","s","s"," "," "," "," "," "," "," "," "," "," "," ","F","o","r","e","i","g","n"," ","A","d","d","r","e","s","s"," "," "," "," "," "," "," "," "," ","S","t","a","t","e"," "," "," "," "," "," "," ">>,
          <<"t","c","p"," "," "," "," "," "," "," "," ","0"," "," "," "," "," "," ","0"," ","0",".","0",".","0",".","0",":","8","0","8","0"," "," "," "," "," "," "," "," "," "," "," "," ","0",".","0",".","0",".","0",":","*"," "," "," "," "," "," "," "," "," "," "," "," "," "," "," ","L","I","S","T","E","N"," "," "," "," "," "," ">>,
          <<"/"," ","#"," ","p","s"," ","a","u","x">>,
          <<"P","I","D"," "," "," ","U","S","E","R"," "," "," "," "," ","T","I","M","E"," "," ","C","O","M","M","A","N","D">>,
          <<" "," "," "," ","1"," ","r","o","o","t"," "," "," "," "," "," ","0",":","0","5"," ","n","o","d","e"," ","m","a","i","n",".","j","s">>,
          <<" "," "," ","4","2"," ","r","o","o","t"," "," "," "," "," "," ","0",":","0","0"," ","/","b","i","n","/","s","h">>,
          <<" "," "," ","4","3"," ","r","o","o","t"," "," "," "," "," "," ","0",":","0","0"," ","p","s"," ","a","u","x">>,
          <<"/"," ","#"," ","e","x","i","t">>,
          <<"c","o","m","m","a","n","d"," ","t","e","r","m","i","n","a","t","e","d"," ","w","i","t","h"," ","e","x","i","t"," ","c","o","d","e"," ","0">> >>, str_newline)

\* nsMatch ? (nsMatch[1] || nsMatch[2]) : 'default', for
\* nsMatch = cmd.match(/-n\s+(\S+)|--namespace=(\S+)/): the leftmost index at
\* which an alternative matches, the first alternative tried first
RECURSIVE NamespaceFrom(_, _)
NamespaceFrom(cmd, i) ==
  IF i > Len(cmd) THEN str_default
  ELSE IF CaptureSpaced(cmd, pat_n, i) # <<>> THEN CaptureSpaced(cmd, pat_n, i)
  ELSE IF CaptureJoined(cmd, pat_namespace, i) # <<>>
    THEN CaptureJoined(cmd, pat_namespace, i)
  ELSE NamespaceFrom(cmd, i + 1)

Namespace(cmd) == NamespaceFrom(cmd, 1)

\* cmd.includes('-A') || cmd.includes('--all-namespaces')
AllNamespaces(cmd) == Includes(cmd, pat_A) \/ Includes(cmd, pat_all_namespaces)

\* all ? this.state.pods : this.state.pods.filter(p => p.namespace === ns)
Filtered(st, cmd) ==
  IF AllNamespaces(cmd) THEN st.pods
  ELSE SelectSeq(st.pods, LAMBDA p : Chars(p.namespace) = Namespace(cmd))

header ==
  PadEnd(<<"N","A","M","E">>, 30) \o PadEnd(<<"R","E","A","D","Y">>, 10) \o PadEnd(<<"S","T","A","T","U","S">>, 15)
  \o PadEnd(<<"R","E","S","T","A","R","T","S">>, 10) \o <<"A","G","E">>

\* `${p.name.padEnd(30)}1/1`.padEnd(10) + `${p.status.padEnd(15)}0`.padEnd(10) + `2d`
Row(p) ==
  PadEnd(PadEnd(Chars(p.name), 30) \o <<"1","/","1">>, 10)
  \o PadEnd(PadEnd(Chars(p.status), 15) \o <<"0">>, 10) \o <<"2","d">>

GetPodsResponse(st, cmd) ==
  LET filtered == Filtered(st, cmd)
  IN IF Len(filtered) = 0
       THEN <<"N","o"," ","r","e","s","o","u","r","c","e","s"," ","f","o","u","n","d"," ","i","n"," ">> \o Namespace(cmd) \o <<" ","n","a","m","e","s","p","a","c","e",".">>
       ELSE Join(<<header>> \o [k \in 1..Len(filtered) |-> Row(filtered[k])],
                 str_newline)

\* cmd.split('describe pod ')[1]: the text between the first and the second
\* occurrence of the separator; undefined if the separator does not occur
AfterDescribe(cmd) ==
  LET i == IndexOf(cmd, sep_describe)
      rest == SubSeq(cmd, i + Len(sep_describe), Len(cmd))
      j == IndexOf(rest, sep_describe)
  IN IF i = 0 THEN [defined |-> FALSE, text |-> <<>>]
     ELSE [defined |-> TRUE,
           text |-> IF j = 0 THEN rest ELSE SubSeq(rest, 1, j - 1)]

\* ...?.split(' ')[0]
DescribeTarget(cmd) ==
  LET part == AfterDescribe(cmd)
      j == IndexOf(part.text, str_space)
  IN IF ~part.defined THEN part
     ELSE [defined |-> TRUE,
           text |-> IF j = 0 THEN part.text ELSE SubSeq(part.text, 1, j - 1)]

\* `${podName}`
TargetText(podName) == IF podName.defined THEN podName.text ELSE str_undefined

\* this.state.pods.find(p => p.name === podName): index, 0 if none
RECURSIVE FindNameFrom(_, _, _)
FindNameFrom(pods, podName, i) ==
  IF i > Len(pods) THEN 0
  ELSE IF podName.defined /\ Chars(pods[i].name) = podName.text THEN i
  ELSE FindNameFrom(pods, podName, i + 1)

DescribeResponse(st, cmd) ==
  LET podName == DescribeTarget(cmd)
      k == FindNameFrom(st.pods, podName, 1)
  IN IF k = 0
       THEN <<"E","r","r","o","r",":"," ","p","o","d"," ","\"">> \o TargetText(podName) \o <<"\""," ","n","o","t"," ","f","o","u","n","d">>
       ELSE <<"N","a","m","e",":"," ">> \o Chars(st.pods[k].name) \o str_newline
            \o <<"N","a","m","e","s","p","a","c","e",":"," ">> \o Chars(st.pods[k].namespace) \o str_newline
            \o <<"S","t","a","t","u","s",":"," ">> \o Chars(st.pods[k].status) \o str_newline
            \o <<"I","P",":"," ">> \o Chars(st.pods[k].ip)

\* new Date().toISOString(): one instant of the clock
toISOString == <<"2","0","2","6","-","0","1","-","0","1","T","0","0",":","0","0",":","0","0",".","0","0","0","Z">>

LogsResponse ==
  <<"[">> \o toISOString \o <<"]"," ","I","N","F","O",":"," ","S","t","a","r","t","i","n","g"," ","s","e","r","v","i","c","e",".",".",".">> \o str_newline
  \o <<"[">> \o toISOString \o <<"]"," ","I","N","F","O",":"," ","L","i","s","t","e","n","i","n","g"," ","o","n"," ","p","o","r","t"," ","8","0","8","0">> \o str_newline
  \o <<"[">> \o toISOString \o <<"]"," ","I","N","F","O",":"," ","H","e","a","l","t","h"," ","c","h","e","c","k"," ","p","a","s","s","e","d">>

TcpdumpResponse ==
  Join(<< <<"t","c","p","d","u","m","p",":"," ","l","i","s","t","e","n","i","n","g"," ","o","n"," ","e","t","h","0",","," ","l","i","n","k","-","t","y","p","e"," ","E","N","1","0","M","B"," ","(","E","t","h","e","r","n","e","t",")">>,
          <<"1","0",":","0","0",":","0","1",".","1","2","3"," ","I","P"," ","1","0",".","2","4","4",".","0",".","1","0",".","4","5","6","7","8"," ",">"," ","1","0",".","2","4","4",".","0",".","1","5",".","8","0",":"," ","F","l","a","g","s"," ","[","S","]">>,
          <<"1","0",":","0","0",":","0","1",".","1","2","4"," ","I","P"," ","1","0",".","2","4","4",".","0",".","1","5",".","8","0"," ",">"," ","1","0",".","2","4","4",".","0",".","1","0",".","4","5","6","7","8",":"," ","F","l","a","g","s"," ","[","S",".","]">> >>,
       str_newline)

\* a fallback that echoes the trimmed command
FallbackResponse_Trimmed(command) ==
  <<"C","o","m","m","a","n","d"," ","e","x","e","c","u","t","e","d",":"," ">> \o Trim(command) \o str_newline \o <<"O","u","t","p","u","t",":"," ","S","u","c","c","e","s","s"," ","(","S","i","m","u","l","a","t","e","d",")">>

\* `Command executed: ${command}\nOutput: Success (Simulated)`
FallbackResponse(command) ==
  <<"C","o","m","m","a","n","d"," ","e","x","e","c","u","t","e","d",":"," ">> \o command \o str_newline \o <<"O","u","t","p","u","t",":"," ","S","u","c","c","e","s","s"," ","(","S","i","m","u","l","a","t","e","d",")">>

\* the return value of executeCommand(command) on the store st
executeCommand(st, command) ==
  LET cmd == Trim(command)
      branch == Dispatch(command)
  IN CASE branch = "exec" -> ExecResponse(cmd)
       [] branch = "get pods" -> GetPodsResponse(st, cmd)
       [] branch = "describe pod" -> DescribeResponse(st, cmd)
       [] branch = "logs" -> LogsResponse
       [] branch = "tcpdump" -> TcpdumpResponse
       [] OTHER -> FallbackResponse(command)

\* a fallback branch that marks the first pod as terminating
executeCommandStore_Mutating(st, command) ==
  IF Dispatch(command) = "fallback"
    THEN [st EXCEPT !.pods[1].status = "Terminating"]
    ELSE st

\* this.state after executeCommand(command): every branch only reads it
executeCommandStore(st, command) == st

----------------------------------------------------------------------------
(* History of above-threshold CPU runs, kept for the edge-triggering checks *)

NoRun == [active |-> FALSE, memOk |-> TRUE, count |-> 0]

CountAlerts(batch, id, type) ==
  Cardinality({k \in 1..Len(batch) : batch[k].podId = id /\ batch[k].type = type})

\* a run starts when a getState call takes the CPU from <= 90 to > 90 and
\* ends when a call takes it back; it is active if the interval callback
\* started it; count is the number of Utilization alerts emitted during it
RunStep(r, before, after, isTimer, n) ==
  IF after.usage.cpu > THRESHOLD * Scale
    THEN IF before.usage.cpu <= THRESHOLD * Scale
           THEN [active |-> isTimer,
                 memOk |-> before.usage.memory <= THRESHOLD * Scale
                           /\ after.usage.memory <= THRESHOLD * Scale,
                 count |-> n]
           ELSE [active |-> r.active,
                 memOk |-> r.memOk /\ after.usage.memory <= THRESHOLD * Scale,
                 count |-> r.count + n]
    ELSE NoRun

RunAfter(before, after, isTimer, batch) ==
  [i \in 1..Len(after) |->
     RunStep(run[i], before[i], after[i], isTimer,
             CountAlerts(batch, after[i].id, "Utilization"))]

----------------------------------------------------------------------------
(* The program *)

Op(name) == [op |-> name, branch |-> "none"]

\* a Message, without its timestamp
Message(role, content) == [role |-> role, content |-> content]

str_greeting ==
  <<"H","e","l","l","o","!"," ","I","'","m"," ","K","u","b","e","A","g","e","n","t","."," ","I","'","v","e"," ","e","n","a","b","l","e","d"," ","r","e","a","l","-","t","i","m","e"," ","m","o","n","i","t","o","r","i","n","g"," ","f","o","r"," ","y","o","u","r"," ","c","l","u","s","t","e","r","."," ","I","'","l","l"," ","a","l","e","r","t"," ","y","o","u"," ","i","f"," ","a","n","y"," ","p","o","d"," ","e","n","t","e","r","s"," ","a","n"," ","E","r","r","o","r"," ","s","t","a","t","e"," ","o","r"," ","e","x","c","e","e","d","s"," ","9","0","%"," ","u","t","i","l","i","z","a","t","i","o","n",".">>

\* no timer is running yet and the clock is at 0
NoTimers ==
  /\ unmounted = FALSE
  /\ now = 0
  /\ intervalDue = IntervalSeconds
  /\ timeouts = <<>>
  /\ toastAt = 0
  /\ firedFor = 0

Init ==
  /\ state \in {[pods |-> p, namespaces |-> INITIAL_NAMESPACES] :
                  p \in generateMockPods}
  /\ clusterState = NoRef
  /\ lastStateRef = NoRef
  /\ alerts = <<>>
  /\ activeToast = NoAlert
  /\ mounted = FALSE
  /\ renderPending = TRUE
  /\ pc = "idle"
  /\ calls = 0
  /\ emitted = 0
  /\ focus \in 1..Len(state.pods)
  /\ lastOp = Op("new")
  /\ prevPods = <<>>
  /\ diffPrev = <<>>
  /\ newAlerts = <<>>
  /\ run = [i \in 1..Len(state.pods) |-> NoRun]
  /\ feedHistory = <<>>
  /\ pairs = 0
  /\ messages = <<Message("agent", str_greeting)>>
  /\ isProcessing = FALSE
  /\ inflight = FALSE
  /\ steps = <<>>
  /\ lastCommand = <<>>
  /\ lastOutput = <<>>
  /\ NoTimers

\* App is rendered: `useState<ClusterState>(simulator.getState())` calls
\* getState on every render; its result is kept on the first render only,
\* where useRef(clusterState) and the effect installing the interval follow
Render ==
  /\ renderPending
  /\ pc = "idle"
  /\ calls < MaxCalls
  /\ \E draws \in DrawsFor(state.pods) :
       LET newPods == TickPods(state.pods, draws)
           st1 == [state EXCEPT !.pods = newPods]
           ret == GetStateResult(st1)
       IN /\ state' = st1
          /\ clusterState' = IF mounted THEN clusterState ELSE ret
          /\ lastStateRef' = IF mounted THEN lastStateRef ELSE ret
          /\ run' = RunAfter(state.pods, newPods, FALSE, <<>>)
  /\ mounted' = TRUE
  /\ renderPending' = FALSE
  /\ calls' = calls + 1
  /\ lastOp' = IF mounted THEN Op("render") ELSE Op("mount")
  /\ prevPods' = <<>>
  /\ diffPrev' = <<>>
  /\ newAlerts' = <<>>
  /\ UNCHANGED <<alerts, activeToast, pc, emitted, focus, feedHistory, pairs>>
  /\ UNCHANGED chatVars
  /\ UNCHANGED timerVars

\* the setInterval callback
TimerTick ==
  /\ mounted
  /\ ~renderPending
  /\ pc = "idle"
  /\ calls < MaxCalls
  /\ \E draws \in DrawsFor(state.pods) :
       LET newPods == TickPods(state.pods, draws)
           st1 == [state EXCEPT !.pods = newPods]
           newState == GetStateResult(st1)
           lastPods == PodsOf(st1, lastStateRef)
           batch == WithIds(DiffFrom(PodsOf(st1, newState), lastPods, 1), emitted)
       IN /\ state' = st1
          /\ alerts' = IF Len(batch) > 0 THEN PushAlerts(batch, alerts) ELSE alerts
          /\ activeToast' = IF Len(batch) > 0 THEN batch[1] ELSE activeToast
          /\ timeouts' = IF Len(batch) > 0
                           THEN Append(timeouts, [due |-> now + ToastSeconds,
                                                  alert |-> batch[1].id])
                           ELSE timeouts
          /\ toastAt' = IF Len(batch) > 0 THEN now ELSE toastAt
          /\ feedHistory' = batch \o feedHistory
          /\ emitted' = emitted + Len(batch)
          /\ lastStateRef' = newState
          /\ clusterState' = ShallowCopy(st1, newState)
          /\ diffPrev' = lastPods
          /\ newAlerts' = batch
          /\ run' = RunAfter(state.pods, newPods, TRUE, batch)
  /\ prevPods' = state.pods
  /\ renderPending' = TRUE
  /\ calls' = calls + 1
  /\ lastOp' = Op("timer")
  /\ UNCHANGED <<mounted, pc, focus, pairs, unmounted, now, intervalDue,
                 firedFor>>
  /\ UNCHANGED chatVars

\* handleTerminalCommand(command), up to setMessages (the message itself is
\* followed in ChatSpec)
TerminalExecute ==
  /\ mounted
  /\ ~renderPending
  /\ pc = "idle"
  /\ calls < MaxCalls
  /\ \E command \in Commands :
       IF Trim(command) = <<>>
         THEN UNCHANGED vars
         ELSE /\ state' = executeCommandStore(state, command)
              /\ lastOp' = [op |-> "executeCommand", branch |-> Dispatch(command)]
              /\ pc' = "terminal.getState"
              /\ prevPods' = <<>>
              /\ diffPrev' = <<>>
              /\ newAlerts' = <<>>
              /\ UNCHANGED <<clusterState, lastStateRef, alerts, activeToast,
                             mounted, renderPending, calls, emitted, focus, run,
                             feedHistory, pairs>>
              /\ UNCHANGED chatVars
              /\ UNCHANGED timerVars

\* handleTerminalCommand: setClusterState({ ...simulator.getState() })
TerminalRefresh ==
  /\ pc = "terminal.getState"
  /\ \E draws \in DrawsFor(state.pods) :
       LET newPods == TickPods(state.pods, draws)
           st1 == [state EXCEPT !.pods = newPods]
       IN /\ state' = st1
          /\ clusterState' = ShallowCopy(st1, GetStateResult(st1))
          /\ run' = RunAfter(state.pods, newPods, FALSE, <<>>)
  /\ pc' = "idle"
  /\ renderPending' = TRUE
  /\ calls' = calls + 1
  /\ lastOp' = Op("terminal")
  /\ UNCHANGED <<lastStateRef, alerts, activeToast, mounted, emitted, focus,
                 prevPods, diffPrev, newAlerts, feedHistory, pairs>>
  /\ UNCHANGED chatVars
  /\ UNCHANGED timerVars

\* handlePodAction(action, pod) for the actions 'logs' and 'exec'; pod is one
\* of the pods ClusterView was given; its two messages are not followed
handlePodAction ==
  /\ mounted
  /\ ~renderPending
  /\ pc = "idle"
  /\ \E i \in 1..Len(PodsOf(state, clusterState)), action \in {"logs", "exec"} :
       LET pod == PodsOf(state, clusterState)[i]
           command ==
             IF action = "logs"
               THEN str_kubectl_logs \o Chars(pod.name) \o str_dash_n
                    \o Chars(pod.namespace)
               ELSE str_kubectl_exec \o Chars(pod.name) \o str_dash_n
                    \o Chars(pod.namespace) \o str_bin_sh
       IN /\ state' = executeCommandStore(state, command)
          /\ lastOp' = [op |-> "executeCommand", branch |-> Dispatch(command)]
  /\ renderPending' = TRUE
  /\ prevPods' = <<>>
  /\ diffPrev' = <<>>
  /\ newAlerts' = <<>>
  /\ UNCHANGED <<clusterState, lastStateRef, alerts, activeToast, mounted, pc,
                 calls, emitted, focus, run, feedHistory, pairs>>
  /\ UNCHANGED chatVars
  /\ UNCHANGED timerVars

Next ==
  \/ Render
  \/ TimerTick
  \/ TerminalExecute
  \/ TerminalRefresh
  \/ handlePodAction

Spec == Init /\ [][Next]_vars

----------------------------------------------------------------------------
(* The alert feed on its own: the block `if (newAlerts.length > 0) { ... }` *)
(* of the interval callback, applied to batches of one or two alerts; the   *)
(* timeout the block starts is followed in ToastSpec                         *)

FeedInit == Init /\ focus = 1

FeedPush ==
  \E n \in 1..2 :
    /\ emitted + n <= MaxEmitted
    /\ n = 2 => pairs < MaxPairs
    /\ LET pod == state.pods[focus]
           batch == WithIds(IF n = 1
                              THEN <<StatusAlert(pod)>>
                              ELSE <<StatusAlert(pod), UtilizationAlert(pod)>>,
                            emitted)
       IN /\ alerts' = PushAlerts(batch, alerts)
          /\ activeToast' = batch[1]
          /\ feedHistory' = batch \o feedHistory
          /\ newAlerts' = batch
    /\ emitted' = emitted + n
    /\ pairs' = IF n = 2 THEN pairs + 1 ELSE pairs
    /\ lastOp' = Op("push")
    /\ UNCHANGED <<state, clusterState, lastStateRef, mounted, renderPending, pc,
                   calls, focus, prevPods, diffPrev, run>>
    /\ UNCHANGED chatVars
    /\ UNCHANGED timerVars

FeedNext == FeedPush

FeedSpec == FeedInit /\ [][FeedNext]_vars

----------------------------------------------------------------------------
(* The command interpreter on its own: executeCommand applied to the whole  *)
(* seed cluster, between getState calls that move the pods' statuses        *)

cmd_get_long == <<"k","u","b","e","c","t","l"," ","g","e","t"," ","p","o","d","s"," ","-","-","n","a","m","e","s","p","a","c","e","=","k","u","b","e","-","s","y","s","t","e","m">>
cmd_get_default == <<"k","u","b","e","c","t","l"," ","g","e","t"," ","p","o","d","s">>
cmd_get_empty == <<"k","u","b","e","c","t","l"," ","g","e","t"," ","p","o","d","s"," ","-","n"," ","p","r","o","d","u","c","t","i","o","n">>
cmd_get_all == <<"k","u","b","e","c","t","l"," ","g","e","t"," ","p","o","d","s"," ","-","A">>
cmd_get_all_ns == <<"k","u","b","e","c","t","l"," ","g","e","t"," ","p","o","d","s"," ","-","n"," ","k","u","b","e","-","s","y","s","t","e","m"," ","-","A">>
cmd_get_all_long == <<"k","u","b","e","c","t","l"," ","g","e","t"," ","p","o","d","s"," ","-","-","a","l","l","-","n","a","m","e","s","p","a","c","e","s"," ","-","n"," ","p","r","o","d","u","c","t","i","o","n">>
cmd_get_team == <<"k","u","b","e","c","t","l"," ","g","e","t"," ","p","o","d","s"," ","-","n"," ","t","e","a","m","-","A">>
cmd_get_selector == <<"k","u","b","e","c","t","l"," ","g","e","t"," ","p","o","d","s"," ","-","n"," ","k","u","b","e","-","s","y","s","t","e","m"," ","-","l"," ","a","p","p","=","w","e","b","-","A">>
cmd_get_logs == <<"k","u","b","e","c","t","l"," ","g","e","t"," ","p","o","d","s"," ","|"," ","g","r","e","p"," ","l","o","g","s">>
cmd_describe_found == <<"k","u","b","e","c","t","l"," ","d","e","s","c","r","i","b","e"," ","p","o","d"," ","c","o","r","e","d","n","s","-","0",".","a","1","b"," ","-","n"," ","k","u","b","e","-","s","y","s","t","e","m">>
cmd_describe_logs == <<"k","u","b","e","c","t","l"," ","d","e","s","c","r","i","b","e"," ","p","o","d"," ","l","o","g","s","-","a","g","e","n","t">>
cmd_describe_bare == <<"k","u","b","e","c","t","l"," ","d","e","s","c","r","i","b","e"," ","p","o","d">>
cmd_describe_spaced == <<"k","u","b","e","c","t","l"," ","d","e","s","c","r","i","b","e"," ","p","o","d"," "," ","g","h","o","s","t">>
cmd_describe_found_spaced == <<"k","u","b","e","c","t","l"," ","d","e","s","c","r","i","b","e"," ","p","o","d"," "," ","c","o","r","e","d","n","s","-","0",".","a","1","b">>
cmd_exec_tcpdump == <<"k","u","b","e","c","t","l"," ","e","x","e","c"," ","-","i","t"," ","w","e","b"," ","-","-"," ","t","c","p","d","u","m","p"," ","-","i"," ","e","t","h","0">>
cmd_exec_bare == <<"k","u","b","e","c","t","l"," ","e","x","e","c"," ","-","i","t">>
cmd_logs_tcpdump == <<"k","u","b","e","c","t","l"," ","l","o","g","s"," ","w","e","b"," ","-","c"," ","t","c","p","d","u","m","p">>

\* the command strings given to executeCommand
CmdInputs ==
  Commands \cup
  {cmd_get_long, cmd_get_default, cmd_get_empty, cmd_get_all, cmd_get_all_ns,
   cmd_get_all_long, cmd_get_team, cmd_get_selector,
   cmd_get_logs, cmd_describe_found, cmd_describe_logs, cmd_describe_bare,
   cmd_describe_spaced, cmd_describe_found_spaced, cmd_exec_tcpdump,
   cmd_exec_bare, cmd_logs_tcpdump}

\* the draw that flips the status and nothing else
FlipDraw == [QuietDraw EXCEPT !.flip = TRUE]

\* the draws of one getState call in which the pod in focus may flip
StatusDrawsFor(pods) ==
  { f \in [1..Len(pods) -> {QuietDraw, FlipDraw}] :
      \A i \in 1..Len(pods) : i # focus => f[i] = QuietDraw }

CmdInit ==
  /\ state = [pods |-> SeedRoster, namespaces |-> INITIAL_NAMESPACES]
  /\ clusterState = NoRef
  /\ lastStateRef = NoRef
  /\ alerts = <<>>
  /\ activeToast = NoAlert
  /\ mounted = FALSE
  /\ renderPending = FALSE
  /\ pc = "idle"
  /\ calls = 0
  /\ emitted = 0
  /\ focus \in 1..Len(state.pods)
  /\ lastOp = Op("new")
  /\ prevPods = <<>>
  /\ diffPrev = <<>>
  /\ newAlerts = <<>>
  /\ run = [i \in 1..Len(state.pods) |-> NoRun]
  /\ feedHistory = <<>>
  /\ pairs = 0
  /\ messages = <<>>
  /\ isProcessing = FALSE
  /\ inflight = FALSE
  /\ steps = <<>>
  /\ lastCommand = <<>>
  /\ lastOutput = <<>>
  /\ NoTimers

\* simulator.getState()
CmdGetState ==
  /\ calls < MaxCalls
  /\ \E draws \in StatusDrawsFor(state.pods) :
       state' = [state EXCEPT !.pods = TickPods(state.pods, draws)]
  /\ calls' = calls + 1
  /\ lastOp' = Op("getState")
  /\ lastCommand' = <<>>
  /\ lastOutput' = <<>>
  /\ UNCHANGED <<clusterState, lastStateRef, alerts, activeToast, mounted,
                 renderPending, pc, emitted, focus, prevPods, diffPrev,
                 newAlerts, run, feedHistory, pairs, messages, isProcessing,
                 inflight, steps>>
  /\ UNCHANGED timerVars

\* simulator.executeCommand(command)
CmdExecute ==
  /\ \E c \in CmdInputs :
       /\ lastCommand' = c
       /\ lastOutput' = executeCommand(state, c)
       /\ state' = executeCommandStore(state, c)
       /\ lastOp' = [op |-> "executeCommand", branch |-> Dispatch(c)]
  /\ UNCHANGED <<clusterState, lastStateRef, alerts, activeToast, mounted,
                 renderPending, pc, calls, emitted, focus, prevPods, diffPrev,
                 newAlerts, run, feedHistory, pairs, messages, isProcessing,
                 inflight, steps>>
  /\ UNCHANGED timerVars

CmdNext ==
  \/ CmdGetState
  \/ CmdExecute

CmdSpec == CmdInit /\ [][CmdNext]_vars

----------------------------------------------------------------------------
(* The command paths of the App and its message list: the terminal input,   *)
(* the chat request with the steps of its translated response, and the      *)
(* renders in between.  The interval callback and the alert feed are left   *)
(* to Spec, which in turn leaves the message list aside.                    *)

str_prompt == <<"$"," ">>
str_apology == <<"S","o","r","r","y",","," ","I"," ","r","a","n"," ","i","n","t","o"," ","a","n"," ","e","r","r","o","r"," ","p","r","o","c","e","s","s","i","n","g"," ","t","h","a","t"," ","r","e","q","u","e","s","t",".">>
text_show == <<"s","h","o","w"," ","m","e"," ","t","h","e"," ","p","o","d","s">>
summary_done == <<"D","o","n","e",".">>
summary_parse_error == <<"I"," ","e","n","c","o","u","n","t","e","r","e","d"," ","a","n"," ","e","r","r","o","r"," ","i","n","t","e","r","p","r","e","t","i","n","g"," ","y","o","u","r"," ","r","e","q","u","e","s","t",".">>
cmd_parse_error == <<"e","c","h","o"," ","'","P","a","r","s","e"," ","E","r","r","o","r","'">>

\* `$ ${command}\n${output}`
TerminalContent(c, out) == str_prompt \o c \o str_newline \o out

\* the command strings typed in the terminal in this specification
ChatCommands == {cmd_blank, cmd_get}

\* the texts typed in the chat box
ChatTexts == {text_show, cmd_blank}

\* agentMsg: the agent message of a response, which carries the response
AgentMessage(response) ==
  [role |-> "agent", content |-> response.summary, data |-> response]

\* a K8sStep, of which the App reads the command only
K8sStep(c) == [hasCommand |-> TRUE, command |-> c]

\* a step object without a command field
MalformedStep == [hasCommand |-> FALSE, command |-> <<>>]

\* what gemini.processRequest resolves to: an AgentResponse as the model
\* returned it, the response processRequest substitutes when JSON.parse
\* throws, or an object without a steps array (JSON.parse of '{}')
Responses ==
  { [summary |-> summary_done, hasSteps |-> TRUE, steps |-> s] :
      s \in {<<>>, <<K8sStep(cmd_blank)>>,
             <<K8sStep(cmd_get), K8sStep(cmd_other)>>,
             <<K8sStep(cmd_get), MalformedStep>>} }
  \cup {[summary |-> summary_parse_error, hasSteps |-> TRUE,
         steps |-> <<K8sStep(cmd_parse_error)>>]}
  \cup {[summary |-> summary_done, hasSteps |-> FALSE, steps |-> <<>>]}

\* the most messages one request appends after its user message: the agent
\* message, then one message per step or the apology
RequestMessages ==
  1 + Max(1, CHOOSE n \in {Len(r.steps) : r \in Responses} :
               \A r \in Responses : Len(r.steps) <= n)

\* the message list has room for n more messages
Room(n) == Len(messages) + n <= MaxMessages

\* a setter of the App's state: React drops the update once the component
\* is unmounted
SetState(current, value) == IF unmounted THEN current ELSE value

\* a step loop that gives the event loop back between two steps
EventLoopFree_BetweenSteps == pc \in {"idle", "steps"}

\* no handler is in the middle of its synchronous run, so the event loop can
\* start a callback: the step loop of handleUserInput has no await in it
EventLoopFree == pc = "idle"

\* the App right after its first render, whose getState call has ticked the
\* seed pods once
ChatInit ==
  /\ focus \in 1..2
  /\ \E p \in generateMockPods :
       \E draws \in StatusDrawsFor(p) :
         state = [pods |-> TickPods(p, draws), namespaces |-> INITIAL_NAMESPACES]
  /\ clusterState = StoreRef
  /\ lastStateRef = StoreRef
  /\ alerts = <<>>
  /\ activeToast = NoAlert
  /\ mounted = TRUE
  /\ renderPending = FALSE
  /\ pc = "idle"
  /\ calls = 1
  /\ emitted = 0
  /\ lastOp = Op("mount")
  /\ prevPods = <<>>
  /\ diffPrev = <<>>
  /\ newAlerts = <<>>
  /\ run = [i \in 1..Len(state.pods) |-> NoRun]
  /\ feedHistory = <<>>
  /\ pairs = 0
  /\ messages = <<Message("agent", str_greeting)>>
  /\ isProcessing = FALSE
  /\ inflight = FALSE
  /\ steps = <<>>
  /\ lastCommand = <<>>
  /\ lastOutput = <<>>
  /\ NoTimers

\* App is rendered again: useState(simulator.getState()) calls getState
ChatRender ==
  /\ ~unmounted
  /\ renderPending
  /\ EventLoopFree
  /\ \E draws \in StatusDrawsFor(state.pods) :
       state' = [state EXCEPT !.pods = TickPods(state.pods, draws)]
  /\ renderPending' = FALSE
  /\ calls' = calls + 1
  /\ lastOp' = Op("render")
  /\ UNCHANGED <<clusterState, lastStateRef, alerts, activeToast, mounted, pc,
                 emitted, focus, prevPods, diffPrev, newAlerts, run,
                 feedHistory, pairs, messages, isProcessing, inflight, steps,
                 lastCommand, lastOutput>>
  /\ UNCHANGED timerVars

\* the setInterval callback, in the first calls of getState; the histories of
\* its diff are kept in Spec
ChatTimerTick ==
  /\ ~unmounted
  /\ ~renderPending
  /\ EventLoopFree
  /\ calls < MaxCalls
  /\ \E draws \in StatusDrawsFor(state.pods) :
       LET st1 == [state EXCEPT !.pods = TickPods(state.pods, draws)]
           newState == GetStateResult(st1)
           batch == WithIds(DiffFrom(PodsOf(st1, newState),
                                     PodsOf(st1, lastStateRef), 1), emitted)
       IN /\ state' = st1
          /\ alerts' = IF Len(batch) > 0 THEN PushAlerts(batch, alerts) ELSE alerts
          /\ activeToast' = IF Len(batch) > 0 THEN batch[1] ELSE activeToast
          /\ timeouts' = IF Len(batch) > 0
                           THEN Append(timeouts, [due |-> now + ToastSeconds,
                                                  alert |-> batch[1].id])
                           ELSE timeouts
          /\ toastAt' = IF Len(batch) > 0 THEN now ELSE toastAt
          /\ emitted' = emitted + Len(batch)
          /\ lastStateRef' = newState
          /\ clusterState' = ShallowCopy(st1, newState)
  /\ renderPending' = TRUE
  /\ calls' = calls + 1
  /\ lastOp' = Op("timer")
  /\ UNCHANGED <<mounted, pc, focus, prevPods, diffPrev, newAlerts, run,
                 feedHistory, pairs, unmounted, now, intervalDue, firedFor>>
  /\ UNCHANGED chatVars

\* handleTerminalCommand(command)
handleTerminalCommand ==
  /\ ~unmounted
  /\ ~renderPending
  /\ EventLoopFree
  /\ Room(1 + IF inflight THEN RequestMessages ELSE 0)
  /\ \E c \in ChatCommands :
       IF Trim(c) = <<>>
         THEN UNCHANGED vars
         ELSE LET out == executeCommand(state, c)
                  st0 == executeCommandStore(state, c)
              IN \E draws \in StatusDrawsFor(state.pods) :
                   LET st1 == [st0 EXCEPT !.pods = TickPods(st0.pods, draws)]
                   IN /\ messages' = Append(messages,
                                            Message("terminal", TerminalContent(c, out)))
                      /\ state' = st1
                      /\ clusterState' = ShallowCopy(st1, GetStateResult(st1))
                      /\ lastCommand' = c
                      /\ lastOutput' = out
                      /\ renderPending' = TRUE
                      /\ calls' = calls + 1
                      /\ lastOp' = [op |-> "terminal", branch |-> Dispatch(c)]
                      /\ UNCHANGED <<lastStateRef, alerts, activeToast, mounted,
                                     pc, emitted, focus, prevPods, diffPrev,
                                     newAlerts, run, feedHistory, pairs,
                                     isProcessing, inflight, steps>>
                      /\ UNCHANGED timerVars

\* ChatBox.handleSubmit and handleUserInput(text) up to the await
UserInputSubmit ==
  /\ ~unmounted
  /\ ~renderPending
  /\ EventLoopFree
  /\ Room(1 + RequestMessages)
  /\ \E text \in ChatTexts :
       IF Trim(text) = <<>> \/ isProcessing
         THEN UNCHANGED vars
         ELSE /\ messages' = Append(messages, Message("user", text))
              /\ isProcessing' = TRUE
              /\ inflight' = TRUE
              /\ renderPending' = TRUE
              /\ lastOp' = Op("submit")
              /\ UNCHANGED <<state, clusterState, lastStateRef, alerts,
                             activeToast, mounted, pc, calls, emitted, focus,
                             prevPods, diffPrev, newAlerts, run, feedHistory,
                             pairs, steps, lastCommand, lastOutput>>
              /\ UNCHANGED timerVars

\* handleUserInput: processRequest resolves; the agent message is appended and
\* the step loop entered, or `for (const step of response.steps)` throws on a
\* response without steps and the catch and finally blocks run
UserInputResponse ==
  /\ inflight
  /\ unmounted \/ ~renderPending
  /\ EventLoopFree
  /\ \E response \in Responses :
       IF response.hasSteps
         THEN /\ messages' = SetState(messages,
                               Append(messages, AgentMessage(response)))
              /\ steps' = response.steps
              /\ pc' = "steps"
              /\ UNCHANGED isProcessing
         ELSE /\ messages' = SetState(messages,
                               messages \o <<AgentMessage(response),
                                             Message("agent", str_apology)>>)
              /\ isProcessing' = SetState(isProcessing, FALSE)
              /\ UNCHANGED <<steps, pc>>
  /\ inflight' = FALSE
  /\ renderPending' = SetState(renderPending, TRUE)
  /\ lastOp' = Op("response")
  /\ UNCHANGED <<state, clusterState, lastStateRef, alerts, activeToast,
                 mounted, calls, emitted, focus, prevPods, diffPrev, newAlerts,
                 run, feedHistory, pairs, lastCommand, lastOutput>>
  /\ UNCHANGED timerVars

\* handleUserInput: one pass of the step loop; executeCommand throws at
\* command.trim() when the step has no command, and the catch and finally
\* blocks run
UserInputStep ==
  /\ pc = "steps"
  /\ steps # <<>>
  /\ IF Head(steps).hasCommand
       THEN LET c == Head(steps).command
                out == executeCommand(state, c)
            IN /\ messages' = SetState(messages,
                                Append(messages,
                                       Message("terminal", TerminalContent(c, out))))
               /\ state' = executeCommandStore(state, c)
               /\ lastCommand' = c
               /\ lastOutput' = out
               /\ lastOp' = [op |-> "step", branch |-> Dispatch(c)]
               /\ steps' = Tail(steps)
               /\ UNCHANGED <<pc, isProcessing>>
       ELSE /\ messages' = SetState(messages,
                             Append(messages, Message("agent", str_apology)))
            /\ isProcessing' = SetState(isProcessing, FALSE)
            /\ lastOp' = Op("thrown")
            /\ steps' = <<>>
            /\ pc' = "idle"
            /\ UNCHANGED <<state, lastCommand, lastOutput>>
  /\ UNCHANGED <<clusterState, lastStateRef, alerts, activeToast, mounted,
                 renderPending, calls, emitted, focus, prevPods, diffPrev,
                 newAlerts, run, feedHistory, pairs, inflight>>
  /\ UNCHANGED timerVars

\* handleUserInput: after the loop, setClusterState({ ...simulator.getState() })
\* and the finally block
UserInputFinish ==
  /\ pc = "steps"
  /\ steps = <<>>
  /\ \E draws \in StatusDrawsFor(state.pods) :
       LET st1 == [state EXCEPT !.pods = TickPods(state.pods, draws)]
       IN /\ state' = st1
          /\ clusterState' = SetState(clusterState,
                                      ShallowCopy(st1, GetStateResult(st1)))
  /\ isProcessing' = SetState(isProcessing, FALSE)
  /\ pc' = "idle"
  /\ calls' = calls + 1
  /\ lastOp' = Op("finish")
  /\ UNCHANGED <<lastStateRef, alerts, activeToast, mounted, renderPending,
                 emitted, focus, prevPods, diffPrev, newAlerts, run,
                 feedHistory, pairs, messages, inflight, steps, lastCommand,
                 lastOutput>>
  /\ UNCHANGED timerVars

\* a catch block that is not followed by the finally block
UserInputError_NoFinally ==
  /\ inflight
  /\ unmounted \/ ~renderPending
  /\ EventLoopFree
  /\ messages' = SetState(messages, Append(messages, Message("agent", str_apology)))
  /\ inflight' = FALSE
  /\ renderPending' = SetState(renderPending, TRUE)
  /\ lastOp' = Op("error")
  /\ UNCHANGED <<state, clusterState, lastStateRef, alerts, activeToast,
                 mounted, pc, calls, emitted, focus, prevPods, diffPrev,
                 newAlerts, run, feedHistory, pairs, steps, lastCommand,
                 lastOutput, isProcessing>>
  /\ UNCHANGED timerVars

\* handleUserInput: processRequest rejects; the catch and finally blocks run
UserInputError ==
  /\ inflight
  /\ unmounted \/ ~renderPending
  /\ EventLoopFree
  /\ messages' = SetState(messages, Append(messages, Message("agent", str_apology)))
  /\ isProcessing' = SetState(isProcessing, FALSE)
  /\ inflight' = FALSE
  /\ renderPending' = SetState(renderPending, TRUE)
  /\ lastOp' = Op("error")
  /\ UNCHANGED <<state, clusterState, lastStateRef, alerts, activeToast,
                 mounted, pc, calls, emitted, focus, prevPods, diffPrev,
                 newAlerts, run, feedHistory, pairs, steps, lastCommand,
                 lastOutput>>
  /\ UNCHANGED timerVars

ChatNext ==
  \/ ChatRender
  \/ ChatTimerTick
  \/ handleTerminalCommand
  \/ UserInputSubmit
  \/ UserInputResponse
  \/ UserInputStep
  \/ UserInputFinish
  \/ UserInputError

ChatSpec == ChatInit /\ [][ChatNext]_vars


\* what a pass of the step loop does to the loop itself, whatever the
\* command returns
LoopPass ==
  /\ pc = "steps"
  /\ steps # <<>>
  /\ steps' = IF Head(steps).hasCommand THEN Tail(steps) ELSE <<>>
  /\ pc' = IF Head(steps).hasCommand THEN "steps" ELSE "idle"

(* The same with fairness: React renders after a state update, the promise   *)
(* of processRequest settles (handleUserInput sets no timeout of its own, so *)
(* this is assumed of the client library), and the continuation of the       *)
(* handler runs to its end.  The fairness of the step loop is stated on      *)
(* LoopPass: in ChatSpec the steps that satisfy it are those of              *)
(* UserInputStep, which is enabled in the same states.                       *)
ChatLiveSpec ==
  /\ ChatSpec
  /\ WF_vars(ChatRender)
  /\ WF_vars(UserInputResponse \/ UserInputError)
  /\ WF_<<pc, steps>>(LoopPass)
  /\ WF_vars(UserInputFinish)

\* App is unmounted: the cleanup of the effect runs clearInterval(interval)
Unmount ==
  /\ mounted
  /\ ~unmounted
  /\ EventLoopFree
  /\ unmounted' = TRUE
  /\ mounted' = FALSE
  /\ lastOp' = Op("unmount")
  /\ UNCHANGED <<state, clusterState, lastStateRef, alerts, activeToast,
                 renderPending, pc, calls, emitted, focus, prevPods, diffPrev,
                 newAlerts, run, feedHistory, pairs, now, intervalDue,
                 timeouts, toastAt, firedFor>>
  /\ UNCHANGED chatVars

(* The command paths of the App with its unmounting: a request that is in   *)
(* flight when the App is unmounted still runs to its end.                   *)

ShutdownNext ==
  \/ ChatNext
  \/ Unmount

ShutdownSpec == ChatInit /\ [][ShutdownNext]_vars

----------------------------------------------------------------------------
(* The toast on its own: the block `if (newAlerts.length > 0) { ... }` of    *)
(* the interval callback applied every 3 seconds to a batch of no, one or    *)
(* two alerts, the timeouts it starts, the dismiss button and the            *)
(* unmounting, on a clock that counts seconds.  A timer that is due runs     *)
(* before the clock moves on.                                                *)

ToastInit == ChatInit /\ focus = 1

\* one second passes; no timer is due
ToastAdvance ==
  /\ now < MaxTime
  /\ unmounted \/ intervalDue > now
  /\ \A k \in 1..Len(timeouts) : timeouts[k].due > now
  /\ now' = now + 1
  /\ lastOp' = Op("clock")
  /\ UNCHANGED <<state, clusterState, lastStateRef, alerts, activeToast,
                 mounted, renderPending, pc, calls, emitted, focus, prevPods,
                 diffPrev, newAlerts, run, feedHistory, pairs, unmounted,
                 intervalDue, timeouts, toastAt, firedFor>>
  /\ UNCHANGED chatVars

\* the interval fires: setAlerts, setActiveToast(newAlerts[0]) and
\* setTimeout(() => setActiveToast(null), 5000) if the batch is not empty
ToastInterval ==
  /\ ~unmounted
  /\ intervalDue = now
  /\ \E n \in 0..2 :
       LET pod == state.pods[focus]
           batch == WithIds(CASE n = 0 -> <<>>
                              [] n = 1 -> <<StatusAlert(pod)>>
                              [] n = 2 -> <<StatusAlert(pod), UtilizationAlert(pod)>>,
                            emitted)
       IN /\ alerts' = IF Len(batch) > 0 THEN PushAlerts(batch, alerts) ELSE alerts
          /\ activeToast' = IF Len(batch) > 0 THEN batch[1] ELSE activeToast
          /\ timeouts' = IF Len(batch) > 0
                           THEN Append(timeouts, [due |-> now + ToastSeconds,
                                                  alert |-> batch[1].id])
                           ELSE timeouts
          /\ toastAt' = IF Len(batch) > 0 THEN now ELSE toastAt
          /\ feedHistory' = batch \o feedHistory
          /\ newAlerts' = batch
          /\ emitted' = emitted + n
  /\ intervalDue' = now + IntervalSeconds
  /\ lastOp' = Op("timer")
  /\ UNCHANGED <<state, clusterState, lastStateRef, mounted, renderPending, pc,
                 calls, focus, prevPods, diffPrev, run, pairs, unmounted, now,
                 firedFor>>
  /\ UNCHANGED chatVars

\* a timeout fires: () => setActiveToast(null)
ToastTimeout ==
  /\ \E k \in 1..Len(timeouts) :
       /\ timeouts[k].due = now
       /\ timeouts' = SubSeq(timeouts, 1, k - 1) \o SubSeq(timeouts, k + 1, Len(timeouts))
       /\ firedFor' = timeouts[k].alert
  /\ activeToast' = SetState(activeToast, NoAlert)
  /\ lastOp' = Op("timeout")
  /\ UNCHANGED <<state, clusterState, lastStateRef, alerts, mounted,
                 renderPending, pc, calls, emitted, focus, prevPods, diffPrev,
                 newAlerts, run, feedHistory, pairs, unmounted, now,
                 intervalDue, toastAt>>
  /\ UNCHANGED chatVars

\* the button of the toast: onClick={() => setActiveToast(null)}
ToastDismiss ==
  /\ ~unmounted
  /\ activeToast # NoAlert
  /\ activeToast' = NoAlert
  /\ lastOp' = Op("dismiss")
  /\ UNCHANGED <<state, clusterState, lastStateRef, alerts, mounted,
                 renderPending, pc, calls, emitted, focus, prevPods, diffPrev,
                 newAlerts, run, feedHistory, pairs>>
  /\ UNCHANGED timerVars
  /\ UNCHANGED chatVars

ToastNext ==
  \/ ToastAdvance
  \/ ToastInterval
  \/ ToastTimeout
  \/ ToastDismiss
  \/ Unmount

ToastSpec == ToastInit /\ [][ToastNext]_vars
----------------------------------------------------------------------------
(* The alert diff on its own: the forEach of the interval callback applied   *)
(* to the pods before and after a tick, held as two separate pod arrays.     *)
(* The first pod starts with its usage near the threshold of 90.             *)

\* CPU values from which a spike ends at 95 or at 96, or a normal delta
\* crosses 90
NearThresholdCpu == {45 * Scale, 46 * Scale, 88 * Scale}
\* memory values far from 90 and one delta below it
NearThresholdMemory == {50 * Scale, 89 * Scale}

DiffInit ==
  /\ state \in {[pods |-> <<DefaultPod(c, m), SystemPod(c2, m2)>>,
                 namespaces |-> INITIAL_NAMESPACES] :
                  c \in NearThresholdCpu, m \in NearThresholdMemory,
                  c2 \in SystemCpuSeeds, m2 \in SystemMemSeeds}
  /\ clusterState = NoRef
  /\ lastStateRef = NoRef
  /\ alerts = <<>>
  /\ activeToast = NoAlert
  /\ mounted = FALSE
  /\ renderPending = FALSE
  /\ pc = "idle"
  /\ calls = 0
  /\ emitted = 0
  /\ focus = 1
  /\ lastOp = Op("new")
  /\ prevPods = <<>>
  /\ diffPrev = <<>>
  /\ newAlerts = <<>>
  /\ run = [i \in 1..Len(state.pods) |-> NoRun]
  /\ feedHistory = <<>>
  /\ pairs = 0
  /\ messages = <<>>
  /\ isProcessing = FALSE
  /\ inflight = FALSE
  /\ steps = <<>>
  /\ lastCommand = <<>>
  /\ lastOutput = <<>>
  /\ NoTimers

\* a tick of the store, then newState.pods.forEach(...) against the pods of
\* before the tick
DiffTick ==
  /\ calls < MaxCalls
  /\ \E draws \in DrawsFor(state.pods) :
       LET newPods == TickPods(state.pods, draws)
           batch == WithIds(DiffFrom(newPods, state.pods, 1), emitted)
       IN /\ state' = [state EXCEPT !.pods = newPods]
          /\ newAlerts' = batch
          /\ emitted' = emitted + Len(batch)
  /\ prevPods' = state.pods
  /\ diffPrev' = state.pods
  /\ calls' = calls + 1
  /\ lastOp' = Op("diff")
  /\ UNCHANGED <<clusterState, lastStateRef, alerts, activeToast, mounted,
                 renderPending, pc, focus, run, feedHistory, pairs>>
  /\ UNCHANGED chatVars
  /\ UNCHANGED timerVars

DiffNext == DiffTick

DiffSpec == DiffInit /\ [][DiffNext]_vars

----------------------------------------------------------------------------
(* Properties *)

PodIndex == 1..Len(state.pods)

InRange(pods) ==
  \A i \in 1..Len(pods) :
    /\ 0 <= pods[i].usage.cpu /\ pods[i].usage.cpu <= UsageMax * Scale
    /\ 0 <= pods[i].usage.memory /\ pods[i].usage.memory <= UsageMax * Scale

\* the interval callback was the last step: prevPods holds the store's pods
\* before its getState call, state.pods the pods after it
TimerRan == lastOp.op = "timer"

CpuCrossed(i) ==
  /\ prevPods[i].usage.cpu <= THRESHOLD * Scale
  /\ state.pods[i].usage.cpu > THRESHOLD * Scale

MemCrossed(i) ==
  /\ prevPods[i].usage.memory <= THRESHOLD * Scale
  /\ state.pods[i].usage.memory > THRESHOLD * Scale

AlertsOf(i) == {k \in 1..Len(newAlerts) : newAlerts[k].podId = state.pods[i].id}

\* C1: in every reachable state every pod of the store, and of every snapshot
\* the App holds, has 0 <= usage.cpu <= 100 and 0 <= usage.memory <= 100
C1_UsageInRange ==
  /\ InRange(state.pods)
  /\ InRange(PodsOf(state, clusterState))
  /\ InRange(PodsOf(state, lastStateRef))

\* a spike has been cut at 100 while another value was cut at 0
C1_Witness ==
  /\ calls >= 1
  /\ \E i \in PodIndex : state.pods[i].usage.cpu = UsageMax * Scale
  /\ \E i \in PodIndex : state.pods[i].usage.memory = 0

\* C2: whenever the interval callback's tick takes a pod from a non-Error
\* status to Error, its batch holds exactly one Status alert for that pod,
\* of severity Critical and with the message "Pod {name} has entered Error
\* state!"
C2_StatusEdgeAlert ==
  TimerRan =>
    \A i \in PodIndex :
      (prevPods[i].status # "Error" /\ state.pods[i].status = "Error") =>
        /\ CountAlerts(newAlerts, state.pods[i].id, "Status") = 1
        /\ \A k \in AlertsOf(i) :
             newAlerts[k].type = "Status" =>
               /\ newAlerts[k].severity = "Critical"
               /\ newAlerts[k].message =
                    str_Pod \o Chars(state.pods[i].name) \o str_entered

\* C3: a snapshot the store has returned is an independent copy: no step
\* changes the pod list of the snapshot the alert loop keeps in lastStateRef
C3_SnapshotIndependent ==
  [][lastStateRef.kind # "none" =>
       PodsOf(state', lastStateRef) = PodsOf(state, lastStateRef)]_vars

\* C4: reading the state does not change it: the getState call a render makes
\* to read the cluster state leaves every pod's status and usage as they were
C4_SnapshotIdempotent ==
  [][lastOp'.op = "render" => state'.pods = state.pods]_vars

\* C5: a pod whose CPU crossed from <= 90 to > 90 at a tick of the interval
\* and has stayed above 90 since (memory staying <= 90) has had exactly one
\* Utilization alert since the crossing
C5_OneAlertPerCrossing ==
  \A i \in PodIndex :
    (run[i].active /\ run[i].memOk) => run[i].count = 1

\* C6: a tick of the interval that finds a pod in Error and leaves it in
\* Error, with neither CPU nor memory crossing from <= 90 to > 90, emits no
\* alert for that pod
C6_NoLevelTriggeredAlert ==
  TimerRan =>
    \A i \in PodIndex :
      ( /\ prevPods[i].status = "Error"
        /\ state.pods[i].status = "Error"
        /\ ~CpuCrossed(i)
        /\ ~MemCrossed(i) ) => AlertsOf(i) = {}

\* a pod stayed in Error over a tick of the interval, above the threshold
\* before and after it
C6_Witness ==
  /\ TimerRan
  /\ \E i \in PodIndex :
       /\ prevPods[i].status = "Error"
       /\ state.pods[i].status = "Error"
       /\ prevPods[i].usage.cpu > THRESHOLD * Scale
       /\ state.pods[i].usage.cpu > THRESHOLD * Scale
       /\ AlertsOf(i) = {}

\* C7: when a tick of the interval takes a pod's CPU from <= 90 to > 95 while
\* its memory stays <= 90, the batch holds exactly one Utilization alert for
\* the pod, Critical, reading "High CPU usage on {name} ({round(max)}%)"
C7_CriticalCpuAlert ==
  TimerRan =>
    \A i \in PodIndex :
      ( /\ prevPods[i].usage.cpu <= THRESHOLD * Scale
        /\ state.pods[i].usage.cpu > CriticalCpu * Scale
        /\ prevPods[i].usage.memory <= THRESHOLD * Scale
        /\ state.pods[i].usage.memory <= THRESHOLD * Scale ) =>
        /\ CountAlerts(newAlerts, state.pods[i].id, "Utilization") = 1
        /\ \A k \in AlertsOf(i) :
             newAlerts[k].type = "Utilization" =>
               /\ newAlerts[k].severity = "Critical"
               /\ newAlerts[k].message =
                    str_High \o str_CPU \o str_usage_on
                    \o Chars(state.pods[i].name) \o str_lparen
                    \o Digits(Round(Max(state.pods[i].usage.cpu,
                                        state.pods[i].usage.memory)))
                    \o str_pct

\* C8: once the App is mounted, every advance of the store (every getState
\* call) is made by the interval callback, whose diff reads the pods of
\* immediately before the advance as the previous ones
C8_EveryAdvanceDiffed ==
  [][(mounted /\ calls' # calls) =>
       (lastOp'.op = "timer" /\ diffPrev' = state.pods)]_vars

\* C9: the feed never holds more than 50 alerts and is always the first 50
\* of all alerts pushed, batches most recent first, each in emission order
C9_FeedBounded ==
  /\ Len(alerts) <= FeedCap
  /\ Len(alerts) = Min(Len(feedHistory), FeedCap)
  /\ \A k \in 1..Len(alerts) : alerts[k] = feedHistory[k]

\* more than 50 alerts were pushed, a batch of two among them
C9_Witness ==
  /\ Len(feedHistory) > FeedCap
  /\ Len(alerts) = FeedCap
  /\ pairs >= 1

\* C10: executeCommand leaves the store as it was, whichever branch answers
C10_ExecuteCommandReadOnly ==
  [][lastOp'.op = "executeCommand" => state' = state]_vars

\* executeCommand has answered through its fallback branch
C10_Witness ==
  /\ lastOp.op = "executeCommand"
  /\ lastOp.branch = "fallback"

\* executeCommand was the last step: lastCommand is its argument, lastOutput
\* its return value, and state the store it read
Executed == lastOp.op = "executeCommand"

\* the five rules of the command interpreter, in their priority order
RulePatterns == <<pat_exec, pat_get_pods, pat_describe, pat_logs, pat_tcpdump>>

MatchingRules(cmd) ==
  {r \in 1..Len(RulePatterns) : Includes(cmd, RulePatterns[r])}

\* the earliest rule that matches, the fallback being rule 6
EarliestRule(cmd) ==
  IF MatchingRules(cmd) = {} THEN Len(RulePatterns) + 1
  ELSE CHOOSE r \in MatchingRules(cmd) : \A q \in MatchingRules(cmd) : r <= q

RuleResponse(st, c, r) ==
  CASE r = 1 -> ExecResponse(Trim(c))
    [] r = 2 -> GetPodsResponse(st, Trim(c))
    [] r = 3 -> DescribeResponse(st, Trim(c))
    [] r = 4 -> LogsResponse
    [] r = 5 -> TcpdumpResponse
    [] OTHER -> FallbackResponse(c)

\* C11: executeCommand answers with the response of the earliest rule, in the
\* order exec-shell, list pods, describe pod, logs, tcpdump, whose pattern
\* occurs in the trimmed input, and with the fallback exactly when none occurs
C11_FirstMatchWins ==
  Executed =>
    /\ lastOutput = RuleResponse(state, lastCommand, EarliestRule(Trim(lastCommand)))
    /\ (lastOutput = FallbackResponse(lastCommand))
         <=> (MatchingRules(Trim(lastCommand)) = {})

\* a command matching the describe, the logs and no earlier pattern was
\* answered by the describe rule
C11_Witness ==
  /\ Executed
  /\ MatchingRules(Trim(lastCommand)) = {3, 4}
  /\ lastOutput = DescribeResponse(state, Trim(lastCommand))
  /\ lastOutput # LogsResponse

\* the whitespace-separated words of a text
RECURSIVE WordsFrom(_, _)
WordsFrom(s, i) ==
  LET w == SpanSpace(s, i)
      k == SpanWord(s, i + w)
  IN IF k = 0 THEN <<>>
     ELSE <<SubSeq(s, i + w, i + w + k - 1)>> \o WordsFrom(s, i + w + k)

Words(s) == WordsFrom(s, 1)

\* the lines of a text
RECURSIVE Lines(_)
Lines(s) ==
  LET i == IndexOf(s, str_newline)
  IN IF i = 0 THEN <<s>>
     ELSE <<SubSeq(s, 1, i - 1)>> \o Lines(SubSeq(s, i + 1, Len(s)))

StartsWith(s, prefix) ==
  Len(s) >= Len(prefix) /\ SubSeq(s, 1, Len(prefix)) = prefix

\* the command carries an all-namespaces flag: a word -A or --all-namespaces
HasAllNamespacesFlag(c) ==
  \E i \in 1..Len(Words(c)) : Words(c)[i] \in {pat_A, pat_all_namespaces}

\* the namespace a command names: the word after the first -n, or what
\* follows --namespace= in the first such word, whichever flag comes first;
\* "default" when there is no flag
RECURSIVE FlagNamespaceFrom(_, _)
FlagNamespaceFrom(words, i) ==
  IF i > Len(words) THEN str_default
  ELSE IF words[i] = pat_n /\ i < Len(words) THEN words[i + 1]
  ELSE IF StartsWith(words[i], pat_namespace) /\ Len(words[i]) > Len(pat_namespace)
    THEN SubSeq(words[i], Len(pat_namespace) + 1, Len(words[i]))
  ELSE FlagNamespaceFrom(words, i + 1)

FlagNamespace(c) == FlagNamespaceFrom(Words(c), 1)

\* the data rows of a listing: the lines after the first one
DataRows(text) == Tail(Lines(text))

\* the NAME column of a data row
NameColumn(row) == SubSeq(row, 1, Min(Len(row), 30))

PodsIn(pods, ns) == SelectSeq(pods, LAMBDA p : Chars(p.namespace) = ns)

\* C12: a list-pods command without an all-namespaces flag is answered with
\* exactly one data row per pod of the namespace its -n or --namespace= flag
\* names ("default" without a flag), in store order, and no other row; on the
\* seed cluster `kubectl get pods -n kube-system` gives exactly 4 data rows
C12_ListPodsByNamespace ==
  ( /\ Executed
    /\ EarliestRule(Trim(lastCommand)) = 2
    /\ ~HasAllNamespacesFlag(lastCommand) ) =>
    LET expected == PodsIn(state.pods, FlagNamespace(lastCommand))
        rows == DataRows(lastOutput)
    IN /\ Len(rows) = Len(expected)
       /\ \A k \in 1..Len(rows) :
            NameColumn(rows[k]) = PadEnd(Chars(expected[k].name), 30)
       /\ lastCommand = cmd_get => Len(rows) = 4

str_describe == <<"d","e","s","c","r","i","b","e">>
str_not_found == <<"n","o","t"," ","f","o","u","n","d">>

\* the word that follows the words "describe pod" in a command, <<>> if none
RECURSIVE NamedPodFrom(_, _)
NamedPodFrom(words, i) ==
  IF i + 2 > Len(words) THEN <<>>
  ELSE IF words[i] = str_describe /\ words[i + 1] = str_pod THEN words[i + 2]
  ELSE NamedPodFrom(words, i + 1)

NamedPod(c) == NamedPodFrom(Words(c), 1)

InStore(pods, podName) == \E i \in 1..Len(pods) : Chars(pods[i].name) = podName

\* C13: a describe-pod command that names a pod the store does not hold is
\* answered with a single line containing that name and the words "not found"
C13_DescribeNotFound ==
  ( /\ Executed
    /\ EarliestRule(Trim(lastCommand)) = 3
    /\ NamedPod(lastCommand) # <<>>
    /\ ~InStore(state.pods, NamedPod(lastCommand)) ) =>
    /\ Len(Lines(lastOutput)) = 1
    /\ Includes(lastOutput, NamedPod(lastCommand))
    /\ Includes(lastOutput, str_not_found)

str_executed == <<"C","o","m","m","a","n","d"," ","e","x","e","c","u","t","e","d",":"," ">>
str_success == <<"O","u","t","p","u","t",":"," ","S","u","c","c","e","s","s"," ","(","S","i","m","u","l","a","t","e","d",")">>

\* C14: executeCommand returns a non-empty text for every input, and for an input in
\* which none of the five patterns occurs the text has two lines: "Command
\* executed: " followed by the input exactly as passed (untrimmed), then
\* "Output: Success (Simulated)"
C14_FallbackEchoesInput ==
  Executed =>
    /\ Len(lastOutput) > 0
    /\ MatchingRules(Trim(lastCommand)) = {} =>
         Lines(lastOutput) = <<str_executed \o lastCommand, str_success>>

\* an input with surrounding whitespace and no pattern was acknowledged
C14_Witness ==
  /\ Executed
  /\ MatchingRules(Trim(lastCommand)) = {}
  /\ Trim(lastCommand) # <<>>
  /\ Trim(lastCommand) # lastCommand
  /\ Len(Lines(lastOutput)) = 2

\* C15: a blank command is a no-op on the step path of a translated response
\* as it is in the terminal: the pass of the step loop that meets a blank
\* command appends no message and leaves the store as it was
C15_BlankCommandNoOp ==
  [][(pc = "steps" /\ steps # <<>> /\ Head(steps).hasCommand
      /\ Trim(Head(steps).command) = <<>>) =>
       (messages' = messages /\ state' = state)]_vars

\* the diff was the last step: prevPods are the pods it read as previous,
\* state.pods the pods it read as next, newAlerts what it produced
Diffed == lastOp.op = "diff"

\* C16: every Utilization alert the diff produces for a pod names the metric
\* "CPU" if the pod's new cpu is above 90 and "Memory" otherwise, is Critical
\* if the new cpu is above 95 and Warning otherwise, and shows the rounded
\* maximum of the new cpu and memory as its percentage
C16_UtilizationAlertContent ==
  Diffed =>
    \A i \in PodIndex :
      \A k \in AlertsOf(i) :
        newAlerts[k].type = "Utilization" =>
          LET next == state.pods[i].usage
          IN /\ newAlerts[k].message =
                  str_High
                  \o (IF next.cpu > THRESHOLD * Scale THEN str_CPU ELSE str_Memory)
                  \o str_usage_on \o Chars(state.pods[i].name) \o str_lparen
                  \o Digits(Round(Max(next.cpu, next.memory))) \o str_pct
             /\ newAlerts[k].severity =
                  IF next.cpu > CriticalCpu * Scale THEN "Critical" ELSE "Warning"

\* a memory crossing with the cpu at or below 90 gave a Warning alert naming
\* "Memory", its percentage rounded up from a fractional value
C16_Witness ==
  /\ Diffed
  /\ \E i \in PodIndex :
       /\ MemCrossed(i)
       /\ state.pods[i].usage.cpu <= THRESHOLD * Scale
       /\ state.pods[i].usage.memory % Scale # 0
       /\ \E k \in AlertsOf(i) :
            /\ newAlerts[k].type = "Utilization"
            /\ newAlerts[k].severity = "Warning"
            /\ Includes(newAlerts[k].message, str_Memory)

\* the alert diff has just run, in the interval callback or on its own
DiffRan == TimerRan \/ Diffed

\* C17: the status rule and the utilization rule are evaluated independently
\* for each pod: a pod that enters Error and crosses the threshold in the same
\* tick gets a Status alert immediately followed by a Utilization alert, and
\* no pod gets more than one alert of either type in one tick
C17_RulesIndependent ==
  DiffRan =>
    \A i \in PodIndex :
      /\ CountAlerts(newAlerts, state.pods[i].id, "Status") <= 1
      /\ CountAlerts(newAlerts, state.pods[i].id, "Utilization") <= 1
      /\ ( /\ prevPods[i].status # "Error"
           /\ state.pods[i].status = "Error"
           /\ (CpuCrossed(i) \/ MemCrossed(i)) ) =>
           \E k \in AlertsOf(i) :
             /\ newAlerts[k].type = "Status"
             /\ k + 1 \in AlertsOf(i)
             /\ newAlerts[k + 1].type = "Utilization"

Abs(x) == IF x < 0 THEN -x ELSE x

Static(pod) ==
  [pod EXCEPT !.status = "Running", !.usage = [cpu |-> 0, memory |-> 0]]

\* C19: after any sequence of ticks and commands the store holds the pods it
\* was built with, in the same order and with the same id, name, namespace,
\* ip, node, labels, events, connections and scheduling constraints, and the
\* same namespace list; only status and usage differ
C19_TickFrame ==
  /\ Len(state.pods) = 2
  /\ Static(state.pods[1]) = Static(DefaultPod(0, 0))
  /\ Static(state.pods[2]) = Static(SystemPod(0, 0))
  /\ state.namespaces = INITIAL_NAMESPACES

\* a command ran after ticks that changed a pod's status and usage
C19_Witness ==
  /\ lastOp.op = "executeCommand"
  /\ calls >= 2
  /\ \E i \in PodIndex :
       /\ state.pods[i].status = "Error"
       /\ state.pods[i].usage.cpu = UsageMax * Scale

\* C20: in one tick a pod's memory changes by at most 2 and its cpu either
\* changes by at most 5 or becomes the old value plus 50, capped at 100
C20_BoundedDeltas ==
  [][\A i \in 1..Len(state.pods) :
       LET old == state.pods[i].usage
           new == state'.pods[i].usage
       IN /\ Abs(new.memory - old.memory) <= MemSpread * Scale
          /\ \/ Abs(new.cpu - old.cpu) <= CpuSpread * Scale
             \/ new.cpu = Min(UsageMax * Scale, old.cpu + SpikeDelta * Scale)]_vars

\* a tick of the interval spiked a pod's cpu by 50 without flipping its
\* status, while its memory rose
C20_Witness ==
  /\ TimerRan
  /\ \E i \in PodIndex :
       /\ state.pods[i].usage.cpu = prevPods[i].usage.cpu + SpikeDelta * Scale
       /\ state.pods[i].status = prevPods[i].status
       /\ state.pods[i].usage.memory > prevPods[i].usage.memory

\* the offset of a column title in the header line, counted from 0
ColumnOffset(title) == IndexOf(header, title) - 1

\* a data row whose fields start at the offsets of the header's titles
AlignedRow(p) ==
  LET ready == ColumnOffset(<<"R","E","A","D","Y">>)
      status == ColumnOffset(<<"S","T","A","T","U","S">>)
      restarts == ColumnOffset(<<"R","E","S","T","A","R","T","S">>)
      age == ColumnOffset(<<"A","G","E">>)
  IN PadEnd(PadEnd(PadEnd(PadEnd(Chars(p.name), ready) \o <<"1","/","1">>, status)
                   \o Chars(p.status), restarts) \o <<"0">>, age) \o <<"2","d">>

\* C21: the header of the list-pods table has NAME at column 0, READY at 30,
\* STATUS at 40, RESTARTS at 55 and AGE at 65, and every data row is the row
\* of a pod of the store with its name, 1/1, its current status, 0 and 2d at
\* those same offsets
C21_ColumnOffsets ==
  ( /\ Executed
    /\ EarliestRule(Trim(lastCommand)) = 2
    /\ Len(Lines(lastOutput)) > 1 ) =>
    /\ Lines(lastOutput)[1] = header
    /\ ColumnOffset(<<"N","A","M","E">>) = 0
    /\ ColumnOffset(<<"R","E","A","D","Y">>) = 30
    /\ ColumnOffset(<<"S","T","A","T","U","S">>) = 40
    /\ ColumnOffset(<<"R","E","S","T","A","R","T","S">>) = 55
    /\ ColumnOffset(<<"A","G","E">>) = 65
    /\ \A k \in 1..Len(DataRows(lastOutput)) :
         \E i \in PodIndex : DataRows(lastOutput)[k] = AlignedRow(state.pods[i])

\* the index of the pod of that name in the store
PodNamed(pods, podName) == CHOOSE i \in 1..Len(pods) : Chars(pods[i].name) = podName

\* C22: a describe-pod command looks up the word that follows "describe pod":
\* if the store holds a pod of that name the answer is the four lines Name,
\* Namespace, Status and IP with the pod's current values; otherwise, also
\* when no word follows or several spaces precede it, the answer is the one
\* not-found line, naming the word the user gave
C22_DescribeByName ==
  ( /\ Executed
    /\ EarliestRule(Trim(lastCommand)) = 3 ) =>
    LET podName == NamedPod(lastCommand)
    IN IF podName # <<>> /\ InStore(state.pods, podName)
         THEN LET pod == state.pods[PodNamed(state.pods, podName)]
              IN Lines(lastOutput) =
                   << <<"N","a","m","e",":"," ">> \o Chars(pod.name),
                      <<"N","a","m","e","s","p","a","c","e",":"," ">> \o Chars(pod.namespace),
                      <<"S","t","a","t","u","s",":"," ">> \o Chars(pod.status),
                      <<"I","P",":"," ">> \o Chars(pod.ip) >>
         ELSE /\ Len(Lines(lastOutput)) = 1
              /\ Includes(lastOutput, str_not_found)
              /\ podName # <<>> =>
                   lastOutput = <<"E","r","r","o","r",":"," ","p","o","d"," ","\"">> \o podName \o <<"\""," ","n","o","t"," ","f","o","u","n","d">>

\* C23: a list-pods command with a word -A or --all-namespaces lists every
\* pod of the store, whatever namespace flag comes with it, and a list-pods
\* command without such a word lists the pods of the namespace it names
C23_AllNamespacesFlag ==
  ( /\ Executed
    /\ EarliestRule(Trim(lastCommand)) = 2 ) =>
    LET expected == IF HasAllNamespacesFlag(lastCommand)
                      THEN state.pods
                      ELSE PodsIn(state.pods, FlagNamespace(lastCommand))
        rows == DataRows(lastOutput)
    IN /\ Len(rows) = Len(expected)
       /\ \A k \in 1..Len(rows) :
            NameColumn(rows[k]) = PadEnd(Chars(expected[k].name), 30)

str_no_resources == <<"N","o"," ","r","e","s","o","u","r","c","e","s"," ","f","o","u","n","d">>

\* C24: a list-pods command that selects no pod (its namespace holds none and
\* it carries no all-namespaces flag) is answered with the one line "No
\* resources found in {ns} namespace.", ns being the namespace it names, and
\* without a header; a command that selects a pod gets the header and never
\* that line
C24_EmptyList ==
  ( /\ Executed
    /\ EarliestRule(Trim(lastCommand)) = 2 ) =>
    LET ns == FlagNamespace(lastCommand)
        selected == IF HasAllNamespacesFlag(lastCommand)
                      THEN state.pods
                      ELSE PodsIn(state.pods, ns)
    IN IF Len(selected) = 0
         THEN lastOutput = <<"N","o"," ","r","e","s","o","u","r","c","e","s"," ","f","o","u","n","d"," ","i","n"," ">> \o ns \o <<" ","n","a","m","e","s","p","a","c","e",".">>
         ELSE /\ ~Includes(lastOutput, str_no_resources)
              /\ Lines(lastOutput)[1] = header

\* C25: once the App is unmounted no step advances the store, none emits an
\* alert, and neither the interval nor a toast timeout fires
C25_CleanShutdown ==
  [][unmounted =>
       /\ state' = state
       /\ emitted' = emitted
       /\ lastOp'.op \notin {"timer", "timeout"}]_vars

\* the index of the agent message of the response received last
LastResponseIndex ==
  CHOOSE k \in 1..Len(messages) :
    /\ "data" \in DOMAIN messages[k]
    /\ \A j \in (k + 1)..Len(messages) : "data" \notin DOMAIN messages[j]

\* C26: the steps of a response are executed in the order given, each adding
\* one terminal message "$ {command}" followed by a line break and the output
\* of that command, and from the first step to the end of the loop no timer
\* tick and no other handler runs
C26_StepsInOrder ==
  /\ [](pc = "steps" =>
          LET k == LastResponseIndex
              given == messages[k].data.steps
              done == Len(given) - Len(steps)
          IN /\ steps = SubSeq(given, done + 1, Len(given))
             /\ Len(messages) = k + done
             /\ \A j \in 1..done :
                  messages[k + j] =
                    Message("terminal",
                            str_prompt \o given[j].command \o str_newline
                            \o executeCommand(state, given[j].command)))
  /\ [][pc = "steps" =>
          /\ lastOp'.op \in {"step", "thrown", "finish"}
          /\ lastOp'.op # "finish" => state' = state]_vars

\* both steps of a response have run, the list-pods command before the other
C26_Witness ==
  /\ pc = "steps"
  /\ steps = <<>>
  /\ Len(messages) >= 2
  /\ StartsWith(messages[Len(messages) - 1].content, str_prompt \o cmd_get \o str_newline \o header)
  /\ messages[Len(messages)].content =
       str_prompt \o cmd_other \o str_newline \o FallbackResponse(cmd_other)

RunningOrError(pods) ==
  \A i \in 1..Len(pods) : pods[i].status \in {"Running", "Error"}

\* C27: in every reachable state every pod of the store, and of every
\* snapshot the App holds, is Running or Error: the pods start Running and no
\* tick or command puts one in Pending or Terminating
C27_RunningOrError ==
  /\ RunningOrError(state.pods)
  /\ RunningOrError(PodsOf(state, clusterState))
  /\ RunningOrError(PodsOf(state, lastStateRef))
  /\ lastOp.op = "new" => \A i \in PodIndex : state.pods[i].status = "Running"

\* after ticks and a terminal command one pod is in Error, the other Running
C27_Witness ==
  /\ lastOp.op = "terminal"
  /\ calls >= 2
  /\ \E i, j \in PodIndex :
       /\ state.pods[i].status = "Error"
       /\ state.pods[j].status = "Running"

\* C28: every Utilization alert the diff produces whose message names the
\* metric "Memory" is a Warning, and every Utilization alert is for a pod
\* whose greater usage value, before rounding, is strictly above 90
C28_MemoryAlertsAreWarnings ==
  Diffed =>
    \A i \in PodIndex :
      \A k \in AlertsOf(i) :
        newAlerts[k].type = "Utilization" =>
          /\ Includes(newAlerts[k].message, str_High \o str_Memory) =>
               newAlerts[k].severity = "Warning"
          /\ Max(state.pods[i].usage.cpu, state.pods[i].usage.memory)
               > THRESHOLD * Scale

\* a pod entered Error while its memory crossed 90 with the cpu at or below
\* 90: a Status alert, then a Warning that names "Memory"
C28_Witness ==
  /\ Diffed
  /\ Len(newAlerts) = 2
  /\ newAlerts[1].type = "Status"
  /\ newAlerts[2].type = "Utilization"
  /\ newAlerts[2].severity = "Warning"
  /\ Includes(newAlerts[2].message, str_High \o str_Memory)
  /\ \E i \in PodIndex :
       /\ newAlerts[2].podId = state.pods[i].id
       /\ state.pods[i].usage.cpu <= THRESHOLD * Scale
       /\ state.pods[i].usage.memory > THRESHOLD * Scale

Apologies(msgs) ==
  Cardinality({k \in 1..Len(msgs) : msgs[k] = Message("agent", str_apology)})

\* the step taken is the end of a request through the catch block
Caught(op) == op \in {"error", "thrown"} \/ (op = "response" /\ pc' = "idle")

=============================================================================
